---- MODULE Spec2Model ----
(***************************************************************************)
(* Cost resolution, metrics calculation and hierarchical aggregation       *)
(* (SKU -> Listing -> Shop) of reportsv4_optimized.py.                     *)
(*                                                                         *)
(* Conventions of the model                                                *)
(*  - money is an integer: stored fields are in cents (the code stores     *)
(*    round(x, 2)); intermediate values are in 1/1000 cent ("mills"), so   *)
(*    the fee rates 6.5% and 3% are exact.  Python's round() is modelled   *)
(*    as round-half-to-even on the exact value.                            *)
(*  - a ratio/average field is a fraction [n |-> .., d |-> ..] (d > 0);    *)
(*    the calculator stores rounded values (d = 10000, 100 or 1), the      *)
(*    aggregator stores the unrounded quotient.                            *)
(*  - a SKU string is a sequence of tokens; a token is either one of the   *)
(*    known prefixes (in some letter case) or a body part.                 *)
(*  - time is counted in months of one year; a DateRange is <<first month, *)
(*    last month>>.                                                        *)
(***************************************************************************)
EXTENDS Integers, Sequences, FiniteSets, TLC

VARIABLES
    orders,                 \* table orders (+ order_transactions, order_refunds)
    cost_data,              \* cost.csv as loaded by _load_cost_data
    listing_ad_stats,       \* table listing_ad_stats
    phase,                  \* position of generate_all_insights_batch
    sku_tasks_done,         \* SKU tasks of phase 1 that have finished
    listing_tasks_done,     \* listing tasks of phase 2 that have finished
    shop_tasks_done,        \* shop tasks (one per period type) that have finished
    sku_metrics_store,      \* {sku: {period_key: metrics}}
    listing_metrics_store,  \* {listing_id: {period_key: metrics}}
    product_reports,        \* report store: product_reports rows by natural key
    listing_reports,        \* report store: listing_reports rows
    shop_reports,           \* report store: shop_reports rows
    cost_query,             \* arguments of one get_cost_with_fallback call
    cost_answer,            \* its result
    call_args,              \* arguments of one call of a function on its own
    call_result,            \* <<>> before the call, <<value>> once it has returned
    failing_queries,        \* the mega-queries the database fails or times out in
                            \* this run, by the arguments of calculate_metrics_batch
    inside,                 \* the tasks inside their "async with semaphore" section
    max_concurrent          \* self.max_concurrent, the value of the semaphore

vars == <<orders, cost_data, listing_ad_stats, phase, sku_tasks_done,
          listing_tasks_done, shop_tasks_done, sku_metrics_store,
          listing_metrics_store, product_reports, listing_reports,
          shop_reports, cost_query, cost_answer,
                   call_args, call_result, failing_queries, inside,
                   max_concurrent>>

(***************************************************************************)
(* Bounds of the model                                                     *)
(***************************************************************************)
MaxOrders == 2          \* orders in the database
LastMonth == 2          \* the order history spans months 1..LastMonth

None == <<>>            \* Python None / empty string, for a SKU
NoListing == 0          \* Python None, for a listing id
NaN == -1               \* an empty cell of cost.csv
NoQuantity == -1        \* a NULL quantity of a row of order_transactions
max_retries == 5        \* attempts of the mega-query
default_max_concurrent == 10    \* max_concurrent of __init__

(***************************************************************************)
(* Small generic helpers                                                   *)
(***************************************************************************)
RECURSIVE SumSeq(_)
SumSeq(s) == IF s = <<>> THEN 0 ELSE Head(s) + SumSeq(Tail(s))

RECURSIVE SetToSeq(_)
SetToSeq(S) == IF S = {} THEN <<>>
               ELSE LET x == CHOOSE y \in S : TRUE IN <<x>> \o SetToSeq(S \ {x})

RECURSIVE Filter(_, _)
\* [x for x in s if x in Keep]
Filter(s, Keep) == IF s = <<>> THEN <<>>
                   ELSE (IF Head(s) \in Keep THEN <<Head(s)>> ELSE <<>>) \o Filter(Tail(s), Keep)

Range(s) == {s[i] : i \in DOMAIN s}

\* round(n / d) to the nearest integer, ties to even (d > 0)
RoundDiv(n, d) ==
    LET q == n \div d
        r == n % d
    IN  IF 2 * r < d THEN q
        ELSE IF 2 * r > d THEN q + 1
        ELSE IF q % 2 = 0 THEN q ELSE q + 1

RECURSIVE ScaleDiv(_, _, _)
\* quotient and remainder of n * 10^k by d (d > 0), one decimal digit at a time
ScaleDiv(n, d, k) ==
    IF k = 0 THEN [q |-> n \div d, r |-> n % d]
    ELSE LET p == ScaleDiv(n, d, k - 1)
         IN  [q |-> p.q * 10 + ((p.r * 10) \div d), r |-> (p.r * 10) % d]

\* round(n / d, k) as an integer number of 10^-k, ties to even (d > 0)
RoundScaled(n, d, k) ==
    LET p == ScaleDiv(n, d, k)
    IN  IF 2 * p.r < d THEN p.q
        ELSE IF 2 * p.r > d THEN p.q + 1
        ELSE IF p.q % 2 = 0 THEN p.q ELSE p.q + 1

\* round(a * b / c) for a, b >= 0 and c > 0, without forming a * b
MulDiv(a, b, c) == (a \div c) * b + RoundDiv((a % c) * b, c)

Frac(n, d) == [n |-> n, d |-> d]
Zero == Frac(0, 1)
\* the fraction f has the value num / den
FracIs(f, num, den) == f.n * den = num * f.d

(***************************************************************************)
(* Identifier normalizer                                                   *)
(***************************************************************************)
prefixes_to_remove ==
    <<"DELETED-", "OT-", "ZSTK-", "MG-", "LND-", "EU-", "US-", "UK-", "CA-", "AU-", "JP-">>

\* str.upper() / str.lower() on the tokens that occur
str_upper(t) ==
    CASE t \in {"OT-", "ot-", "Ot-"} -> "OT-"
      [] t \in {"DELETED-", "deleted-"} -> "DELETED-"
      [] t \in {"EU-", "eu-"} -> "EU-"
      [] t \in {"Wal", "wal", "WAL"} -> "WAL"
      [] t \in {"WalRed", "walred", "WALRED"} -> "WALRED"
      [] t \in {"Bag", "bag", "BAG"} -> "BAG"
      [] OTHER -> t

str_lower(t) ==
    CASE str_upper(t) = "OT-" -> "ot-"
      [] str_upper(t) = "DELETED-" -> "deleted-"
      [] str_upper(t) = "EU-" -> "eu-"
      [] str_upper(t) = "WAL" -> "wal"
      [] str_upper(t) = "WALRED" -> "walred"
      [] str_upper(t) = "BAG" -> "bag"
      [] OTHER -> t

RECURSIVE StripPrefixes(_)
\* the while-changed loop: drop the head while it is a known prefix
StripPrefixes(sku) ==
    IF sku # <<>> /\ str_upper(Head(sku)) \in Range(prefixes_to_remove)
    THEN StripPrefixes(Tail(sku))
    ELSE sku

RECURSIVE LStrip(_)
\* the string without its leading whitespace tokens
LStrip(sku) ==
    IF sku # <<>> /\ Head(sku) = " " THEN LStrip(Tail(sku)) ELSE sku

Reverse(s) == [i \in 1..Len(s) |-> s[Len(s) + 1 - i]]

\* sku.strip(): whitespace is dropped at both ends, and only there
str_strip(sku) == Reverse(LStrip(Reverse(LStrip(sku))))

\* normalized_sku.lower()
Lowered(normalized_sku) ==
    [i \in DOMAIN normalized_sku |-> str_lower(normalized_sku[i])]

_normalize_sku_for_comparison(sku) ==
    IF sku = None THEN sku
    ELSE Lowered(StripPrefixes(str_strip(sku)))

(***************************************************************************)
(* Catalogue: table listing_products and the maps _preload_sku_mappings    *)
(* builds from it                                                          *)
(***************************************************************************)
SkuWal == <<"OT-", "Wal">>
SkuWalRed == <<"OT-", "WalRed">>
SkuBag == <<"Bag">>

listing_products ==
    << [sku |-> SkuWal,    product_id |-> 1, listing_id |-> 10],
       [sku |-> SkuWalRed, product_id |-> 2, listing_id |-> 10],
       [sku |-> SkuBag,    product_id |-> 3, listing_id |-> 20] >>

RECURSIVE Dedup(_, _)
Dedup(s, seen) == IF s = <<>> THEN <<>>
                  ELSE IF Head(s) \in seen THEN Dedup(Tail(s), seen)
                  ELSE <<Head(s)>> \o Dedup(Tail(s), seen \cup {Head(s)})

\* sku.replace("DELETED-", "") if sku.startswith("DELETED-") else sku
StripDeleted(sku) ==
    IF sku # <<>> /\ Head(sku) = "DELETED-"
    THEN Filter(sku, Range(sku) \ {"DELETED-"})
    ELSE sku

\* [Val(row) for row in rows if Test(row)], in row order
RowsWhere(rows, Test(_), Val(_)) ==
    LET sel == SelectSeq(rows, Test)
    IN  [i \in DOMAIN sel |-> Val(sel[i])]

\* keys of _sku_to_products, in insertion order
SkuKeys ==
    LET T(r) == TRUE
        V(r) == StripDeleted(r.sku)
    IN  Dedup(RowsWhere(listing_products, T, V), {})

\* self._sku_to_products.get(sku, [])
_sku_to_products(sku) ==
    LET T(r) == StripDeleted(r.sku) = sku
        V(r) == r.product_id
    IN  RowsWhere(listing_products, T, V)

\* self._listing_to_products.get(listing_id, [])
_listing_to_products(listing_id) ==
    LET T(r) == r.listing_id = listing_id
        V(r) == r.product_id
    IN  RowsWhere(listing_products, T, V)

get_all_skus == SkuKeys

\* the first key of _sku_to_products whose product ids contain pid, per product
\* id of the listing
get_child_skus_for_listing(listing_id) ==
    LET pids == _listing_to_products(listing_id)
        Owner(pid) == LET T(s) == pid \in Range(_sku_to_products(s))
                          V(s) == s
                          hit == RowsWhere(SkuKeys, T, V)
                      IN  IF hit = <<>> THEN <<>> ELSE <<hit[1]>>
        RECURSIVE Walk(_)
        Walk(ps) == IF ps = <<>> THEN <<>> ELSE Owner(Head(ps)) \o Walk(Tail(ps))
    IN  Walk(pids)

\* SELECT listing_id FROM listing_products WHERE sku = $1 ... LIMIT 1
_get_listing_id_for_sku(sku) ==
    LET T(r) == r.sku = sku
        V(r) == r.listing_id
        hit == RowsWhere(listing_products, T, V)
    IN  IF hit = <<>> THEN NoListing ELSE hit[1]

(***************************************************************************)
(* Cost index: cost.csv, the bulk cost cache and the direct lookup         *)
(***************************************************************************)
BaseYear == 2025        \* the year of month 1 of the order history
BulkFirstYear == 2023   \* range(2023, 2027) of _preload_bulk_costs
BulkLastYear == 2026
HistoryMonths == 24     \* range(24) of get_cost_with_fallback

cost_prefixes == <<"US", "EU", "AU">>

\* the dated cost columns of cost.csv, as <<region prefix, year, month>>
CostColumns ==
    {<<p, BaseYear, m>> : p \in {"US", "EU"}, m \in 1..LastMonth}
        \cup {<<"US", BaseYear - 1, 12>>}

\* self.cost_data[self.cost_data['_normalized_sku'] == normalized_lookup_sku]
MatchingRows(key) ==
    SelectSeq(cost_data, LAMBDA r : _normalize_sku_for_comparison(r.SKU) = key)

\* the values of the columns for (year, month) that exist and are not NaN, in
\* the order the lookup tries them
ExactCells(row, year, month) ==
    LET sel == SelectSeq(cost_prefixes,
                   LAMBDA p : /\ <<p, year, month>> \in CostColumns
                              /\ row.cells[<<p, year, month>>] # NaN)
    IN  [i \in DOMAIN sel |-> row.cells[<<sel[i], year, month>>]]

\* dated_costs.sort(reverse=True)[0][1]: the largest cost of the latest year
MostRecentCost(row) ==
    LET dated == {c \in CostColumns : row.cells[c] > 0}
        latest == CHOOSE y \in {c[2] : c \in dated} : \A c \in dated : c[2] <= y
        costs == {row.cells[c] : c \in {x \in dated : x[2] = latest}}
    IN  IF dated = {} THEN 0
        ELSE CHOOSE v \in costs : \A w \in costs : w <= v

RECURSIVE BulkHits(_, _, _)
\* the positive cells _preload_bulk_costs meets for (year, month), row by row
\* and prefix by prefix; the first one is what it caches
BulkHits(rows, year, month) ==
    IF rows = <<>> THEN <<>>
    ELSE LET row == Head(rows)
             sel == SelectSeq(cost_prefixes,
                        LAMBDA p : /\ <<p, year, month>> \in CostColumns
                                   /\ row.cells[<<p, year, month>>] > 0)
         IN  [i \in DOMAIN sel |-> row.cells[<<sel[i], year, month>>]]
                 \o BulkHits(Tail(rows), year, month)

\* self._bulk_cost_cache as filled by _preload_bulk_costs: <<>> when the key is
\* absent, <<cost>> when it is cached
_bulk_cost_cache(key, year, month) ==
    LET hits == BulkHits(MatchingRows(key), year, month)
    IN  IF year \in BulkFirstYear..BulkLastYear /\ hits # <<>>
        THEN <<hits[1]>> ELSE <<>>

\* the lookup in the first matching row: the first cell of (year, month) that
\* is not NaN, else the most recent cost of the row
CostOfRows(rows, year, month) ==
    IF rows = <<>> THEN 0
    ELSE LET exact == ExactCells(rows[1], year, month)
         IN  IF exact # <<>> THEN exact[1]
             ELSE MostRecentCost(rows[1])

\* get_cost_for_sku_date while self._bulk_cost_cache is still empty
get_cost_before_preload(sku, year, month) ==
    IF sku = None \/ cost_data = <<>> THEN 0
    ELSE CostOfRows(MatchingRows(_normalize_sku_for_comparison(sku)), year, month)

get_cost_for_sku_date(sku, year, month) ==
    IF sku = None \/ cost_data = <<>> THEN 0
    ELSE LET key == _normalize_sku_for_comparison(sku)
             cached == _bulk_cost_cache(key, year, month)
         IN  IF cached # <<>> THEN cached[1]
             ELSE CostOfRows(MatchingRows(key), year, month)

(***************************************************************************)
(* Cost resolver                                                           *)
(***************************************************************************)
\* the (year, month) i months before (year, month)
MonthsBack(year, month, i) ==
    LET t == year * 12 + (month - 1) - i
    IN  <<t \div 12, (t % 12) + 1>>

\* siblings of sku in the listing, compared by normalized key
SiblingSkus(sku, listing_id) ==
    SelectSeq(get_child_skus_for_listing(listing_id),
        LAMBDA s : _normalize_sku_for_comparison(s) # _normalize_sku_for_comparison(sku))

\* the first positive cost of a sequence of costs, 0 when it has none
RECURSIVE FirstPositive(_)
FirstPositive(costs) ==
    IF costs = <<>> THEN 0
    ELSE IF Head(costs) > 0 THEN Head(costs)
    ELSE FirstPositive(Tail(costs))

\* the costs of the siblings for (year, month), in the order of the list
SiblingCosts(sibling_skus, year, month) ==
    [i \in DOMAIN sibling_skus |-> get_cost_for_sku_date(sibling_skus[i], year, month)]

\* the (year, month) of the 24 months before (year, month), most recent first
historical_periods(year, month) ==
    [i \in 1..HistoryMonths |-> MonthsBack(year, month, i)]

\* the cost if it is positive, otherwise what the next lookup gives
OrElse(cost, otherwise) ==
    IF cost > 0 THEN cost ELSE otherwise

\* <<cost, source>> if the cost is positive, otherwise what the next strategy gives
Found(cost, source, otherwise) ==
    IF cost > 0 THEN <<cost, source>> ELSE otherwise

RECURSIVE HistoricalCost(_, _)
\* for hist_year, hist_month in historical_periods: for sibling_sku in
\* sibling_skus: the first positive cost, 0 when there is none
HistoricalCost(sibling_skus, hist) ==
    IF hist = <<>> THEN 0
    ELSE OrElse(FirstPositive(SiblingCosts(sibling_skus, Head(hist)[1], Head(hist)[2])),
                HistoricalCost(sibling_skus, Tail(hist)))

\* strategies 2 and 3 on the list of siblings: the cost of a sibling for the
\* same period, else the most recent cost of a sibling in the 24 months before
CostFromSiblings(sibling_skus, year, month) ==
    IF sibling_skus = <<>> THEN <<0, "missing">>
    ELSE Found(FirstPositive(SiblingCosts(sibling_skus, year, month)),
               "sibling_same_period",
               Found(HistoricalCost(sibling_skus, historical_periods(year, month)),
                     "sibling_historical", <<0, "missing">>))

\* get_cost_with_fallback after the direct lookup has given nothing
SiblingCost(sku, year, month, listing_id) ==
    IF listing_id = NoListing THEN <<0, "missing">>
    ELSE CostFromSiblings(SiblingSkus(sku, listing_id), year, month)

\* a resolver that asks the siblings first
get_cost_sibling_first(sku, year, month, listing_id) ==
    Found(SiblingCost(sku, year, month, listing_id)[1], "sibling_same_period",
          Found(get_cost_for_sku_date(sku, year, month), "direct", <<0, "missing">>))

\* <<cost, source>>
get_cost_with_fallback(sku, year, month, listing_id) ==
    Found(get_cost_for_sku_date(sku, year, month), "direct",
          SiblingCost(sku, year, month, listing_id))

(***************************************************************************)
(* Shipping profile index (desi, zones, tier matrix, US flat table)        *)
(***************************************************************************)
\* all_products_desi.csv by normalized SKU, in 1/10 kg; 0.5 kg when unknown
get_desi_for_sku(sku) ==
    LET key == _normalize_sku_for_comparison(sku)
    IN  CASE key = <<"wal">> -> 3
          [] key = <<"walred">> -> 4
          [] key = <<"bag">> -> 12
          [] OTHER -> 5

NoCountry == ""         \* Python None / empty string, for a country

\* country.upper() on the spellings that occur
country_upper(country) ==
    CASE country \in {"us", "Us"} -> "US"
      [] country \in {"usa", "Usa"} -> "USA"
      [] country \in {"united states", "United States"} -> "UNITED STATES"
      [] country = "de" -> "DE"
      [] country = "gb" -> "GB"
      [] OTHER -> country

\* fedex_country_code_and_zone_number.csv; zone 8 when the country is unknown
get_zone_for_country(country_code) ==
    CASE country_code = NoCountry -> 8
      [] country_upper(country_code) = "DE" -> 3
      [] country_upper(country_code) = "GB" -> 4
      [] OTHER -> 8

\* the Weight column of fedex_price_per_kg_and_zones.csv, in 1/10 kg
weight_tiers == <<5, 10, 20>>

\* the price (cents) of a tier in a zone
TierPrice(tier, zone) ==
    CASE zone = 3 -> (CASE tier = 5 -> 150 [] tier = 10 -> 220 [] OTHER -> 310)
      [] zone = 4 -> (CASE tier = 5 -> 165 [] tier = 10 -> 240 [] OTHER -> 330)
      [] OTHER -> (CASE tier = 5 -> 180 [] tier = 10 -> 250 [] OTHER -> 350)

\* the largest tier that is not above the weight, or the smallest tier
tier_below(weight_kg) ==
    LET fit == SelectSeq(weight_tiers, LAMBDA t : t <= weight_kg)
    IN  IF fit # <<>> THEN fit[Len(fit)] ELSE weight_tiers[1]

\* the for/else over the sorted tiers: the first tier with weight_kg <= tier,
\* or the last tier when the loop finds none
actual_tier(weight_kg) ==
    LET fit == SelectSeq(weight_tiers, LAMBDA t : weight_kg <= t)
    IN  IF fit # <<>> THEN fit[1] ELSE weight_tiers[Len(weight_tiers)]

get_fedex_price(weight_kg, zone) == TierPrice(actual_tier(weight_kg), zone)

\* us_fedex_desi_and_price.csv by normalized SKU: amounts in cents per unit,
\* rates in 1/1000
get_us_shipping_costs(sku) ==
    LET key == _normalize_sku_for_comparison(sku)
    IN  CASE key = <<"wal">> ->
               [fedex_charge |-> 62, processing_fee |-> 9, duty_rate |-> 80,
                duty_amount |-> 31, tax_rate |-> 0, tax_amount |-> 12]
          [] key = <<"walred">> ->
               [fedex_charge |-> 62, processing_fee |-> 9, duty_rate |-> 0,
                duty_amount |-> 0, tax_rate |-> 25, tax_amount |-> 0]
          [] key = <<"bag">> ->
               [fedex_charge |-> 95, processing_fee |-> 9, duty_rate |-> 0,
                duty_amount |-> 45, tax_rate |-> 0, tax_amount |-> 0]
          [] OTHER ->
               [fedex_charge |-> 0, processing_fee |-> 0, duty_rate |-> 0,
                duty_amount |-> 0, tax_rate |-> 0, tax_amount |-> 0]

(***************************************************************************)
(* Data access: the mega-query of calculate_metrics_batch                  *)
(***************************************************************************)
\* DateRange as <<first month, last month>>
InRange(ts, dr) == dr[1] <= ts /\ ts <= dr[2]

\* the entity filter on order_transactions
EntityFilter(t, sku, listing_id) ==
    IF sku # None THEN t.product_id \in Range(_sku_to_products(sku))
    ELSE IF listing_id # NoListing
         THEN IF _listing_to_products(listing_id) # <<>>
              THEN t.product_id \in Range(_listing_to_products(listing_id))
              ELSE t.listing_id = listing_id
    ELSE TRUE

\* json_build_object('sku', 'quantity', 'price') FILTER (WHERE td.sku IS NOT NULL)
QueryTransactions(o, sku, listing_id) ==
    LET sel == SelectSeq(o.transactions,
                   LAMBDA t : EntityFilter(t, sku, listing_id) /\ t.sku # None)
    IN  [i \in DOMAIN sel |->
            [sku |-> sel[i].sku, quantity |-> sel[i].quantity, price |-> sel[i].price]]

\* the rows of the query that fall in date range dr
QueryRows(dr, sku, listing_id) ==
    {[o EXCEPT !.transactions = QueryTransactions(o, sku, listing_id)] :
        o \in {x \in orders :
                 /\ InRange(x.created_timestamp, dr)
                 /\ \/ sku = None /\ listing_id = NoListing
                    \/ \E i \in DOMAIN x.transactions :
                          EntityFilter(x.transactions[i], sku, listing_id)}}

\* SELECT spend / spend_divisor FROM listing_ad_stats for the period (cents)
get_ad_spend_for_period(dr, listing_id) ==
    LET sel == {a \in listing_ad_stats :
                   /\ InRange(a.month, dr)
                   /\ listing_id = NoListing \/ a.listing_id = listing_id}
        s == SetToSeq(sel)
    IN  SumSeq([i \in DOMAIN s |-> s[i].spend])

(***************************************************************************)
(* Metrics calculator                                                      *)
(***************************************************************************)
etsy_transaction_fee_rate == 65     \* 0.065, in 1/1000
etsy_processing_fee_rate == 30      \* 0.03, in 1/1000
etsy_processing_fee_fixed == 25     \* $0.25, in cents
Mills == 1000                       \* mills per cent
DaysPerMonth == 30                  \* days of one month of the history

\* sum of F over a finite set
SumOver(S, F(_)) ==
    LET s == SetToSeq(S)
    IN  SumSeq([i \in DOMAIN s |-> F(s[i])])

\* round(x, 2) of an amount in mills, as cents
Round2(x) == RoundDiv(x, Mills)
\* round(num / den, 4) if den > 0 else 0
Ratio4(num, den) == IF den > 0 THEN Frac(RoundScaled(num, den, 4), 10000) ELSE Zero
\* round(num / den, 2) if den > 0 else 0, for a count divided by a count
Ratio2(num, den) == IF den > 0 THEN Frac(RoundScaled(num, den, 2), 100) ELSE Zero
\* round(amount / count, 2) if count > 0 else 0, for an amount in mills, as cents
PerUnit2(amount, count) == IF count > 0 THEN Frac(RoundDiv(amount, Mills * count), 1) ELSE Zero

OrderYear(o) == BaseYear + ((o.created_timestamp - 1) \div 12)
OrderMonth(o) == ((o.created_timestamp - 1) % 12) + 1

\* txn.get('listing_id'): the query returns sku, quantity and price only
TxnListingId(txn) ==
    IF "listing_id" \in DOMAIN txn THEN txn.listing_id ELSE NoListing

\* the listing id handed to get_cost_with_fallback for a line item
LineListingId(txn, sku, listing_id) ==
    IF listing_id = NoListing /\ sku # None THEN TxnListingId(txn) ELSE listing_id

LineCost(o, txn, sku, listing_id) ==
    get_cost_with_fallback(txn.sku, OrderYear(o), OrderMonth(o),
                           LineListingId(txn, sku, listing_id))

\* order_country and order_country.upper() in ['US', 'USA', 'UNITED STATES']
IsUS(country) ==
    country # NoCountry /\ country_upper(country) \in {"US", "USA", "UNITED STATES"}

\* a duty or a tax that takes the pre-calculated amount when there is one
AmountOrRate(rate, amount, item_price, quantity) ==
    IF amount > 0 THEN amount * quantity * Mills
    ELSE IF rate > 0 THEN item_price * rate * quantity ELSE 0

\* the duty, and likewise the tax, of a US line item in mills: from the rate
\* and the price of the item in this order when there is a rate, else from
\* the pre-calculated amount
RateOrAmount(rate, amount, item_price, quantity) ==
    IF rate > 0 THEN item_price * rate * quantity
    ELSE IF amount > 0 THEN amount * quantity * Mills ELSE 0

\* a zone price charged once per unit
ZonePricePerUnit(sku, quantity, country) ==
    get_fedex_price(get_desi_for_sku(sku),
                    get_zone_for_country(IF country = NoCountry THEN "US" ELSE country))
        * quantity

\* the price, in the zone of the country, of the total weight of a line item
ZonePrice(sku, quantity, country) ==
    get_fedex_price(get_desi_for_sku(sku) * quantity,
                    get_zone_for_country(IF country = NoCountry THEN "US" ELSE country))

\* the shipping-side costs of a line item of a US order
UsLineShipping(us_costs, item_price, quantity) ==
    [shipping |-> us_costs.fedex_charge * quantity * Mills,
     processing |-> us_costs.processing_fee * quantity * Mills,
     duty |-> RateOrAmount(us_costs.duty_rate, us_costs.duty_amount, item_price, quantity),
     tax |-> RateOrAmount(us_costs.tax_rate, us_costs.tax_amount, item_price, quantity)]

\* the four shipping-side costs of one line item, in mills
LineShipping(o, txn) ==
    IF IsUS(o.country)
    THEN UsLineShipping(get_us_shipping_costs(txn.sku), txn.price, txn.quantity)
    ELSE [shipping |-> ZonePrice(txn.sku, txn.quantity, o.country) * Mills,
          processing |-> 0, duty |-> 0, tax |-> 0]

\* what the two loops over the line items of completed orders see of a line:
\* its quantity, its resolved cost and source, its shipping-side costs
Entry(o, i, resolved) ==
    [order_id |-> o.order_id, line |-> i, quantity |-> o.transactions[i].quantity,
     cost |-> resolved[1], source |-> resolved[2],
     ship |-> LineShipping(o, o.transactions[i])]

LineEntry(o, i, sku, listing_id) ==
    Entry(o, i, LineCost(o, o.transactions[i], sku, listing_id))

\* the line items of the completed orders
LineEntries(completed_orders, sku, listing_id) ==
    UNION {{LineEntry(o, i, sku, listing_id) : i \in DOMAIN o.transactions} :
              o \in completed_orders}

_empty_metrics(date_range) ==
    [period_start |-> date_range[1], period_end |-> date_range[2], period_days |-> 0,
     gross_revenue |-> 0, total_revenue |-> 0, product_revenue |-> 0,
     total_shipping_charged |-> 0, total_tax_collected |-> 0, total_vat_collected |-> 0,
     total_gift_wrap_revenue |-> 0, total_discounts_given |-> 0,
     etsy_transaction_fees |-> 0, etsy_processing_fees |-> 0, total_etsy_fees |-> 0,
     etsy_fee_rate |-> Zero,
     net_revenue |-> 0, net_revenue_after_refunds |-> 0, take_home_rate |-> Zero,
     discount_rate |-> Zero,
     actual_shipping_cost |-> 0, shipping_profit |-> 0, duty_amount |-> 0,
     tax_amount |-> 0, fedex_processing_fee |-> 0,
     total_cost |-> 0, total_cost_with_shipping |-> 0, avg_cost_per_item |-> Zero,
     cost_per_order |-> Zero,
     contribution_margin |-> 0, gross_profit |-> 0, gross_margin |-> Zero,
     net_profit |-> 0, net_margin |-> Zero, return_on_revenue |-> Zero,
     markup_ratio |-> Zero,
     total_ad_spend |-> 0, ad_spend_rate |-> Zero, roas |-> Zero,
     total_orders |-> 0, total_items |-> 0, total_quantity_sold |-> 0, unique_skus |-> 0,
     average_order_value |-> Zero, items_per_order |-> Zero,
     revenue_per_item |-> Zero, profit_per_item |-> Zero,
     unique_customers |-> 0, repeat_customers |-> 0, customer_retention_rate |-> Zero,
     revenue_per_customer |-> Zero, orders_per_customer |-> Zero,
     profit_per_customer |-> Zero,
     shipped_orders |-> 0, shipping_rate |-> Zero, gift_orders |-> 0, gift_rate |-> Zero,
     orders_per_day |-> Zero, revenue_per_day |-> Zero,
     total_refund_amount |-> 0, total_refund_count |-> 0, orders_with_refunds |-> 0,
     etsy_fees_retained_on_refunds |-> 0,
     refund_rate_by_order |-> Zero, refund_rate_by_value |-> Zero,
     order_refund_rate |-> Zero,
     cancelled_orders |-> 0, cancellation_rate |-> Zero, completion_rate |-> Zero,
     total_inventory |-> 0, active_variants |-> 0,
     has_complete_cost_data |-> FALSE, cost_coverage_percent |-> Zero,
     cost_data_sources |-> [direct |-> 0, sibling_same_period |-> 0,
                            sibling_historical |-> 0, missing |-> 0],
     items_with_direct_cost |-> 0, items_with_fallback_cost |-> 0,
     items_missing_cost |-> 0]

cancelled_statuses == {"cancelled", "canceled"}

\* a gross profit with the costs added instead of deducted
GrossProfitCostsAdded(net_revenue_from_sales, total_cost_with_shipping) ==
    net_revenue_from_sales + total_cost_with_shipping

\* gross_profit = net_revenue_from_sales - total_cost_with_shipping
GrossProfit(net_revenue_from_sales, total_cost_with_shipping) ==
    net_revenue_from_sales - total_cost_with_shipping

\* a net profit that forgets the fees Etsy keeps on refunds
NetProfitFeesForgotten(gross_profit, total_refund_amount, etsy_fees_retained_on_refunds, total_ad_spend) ==
    gross_profit - total_refund_amount - total_ad_spend

\* net_profit = gross_profit - total_refund_amount
\*              - etsy_fees_retained_on_refunds - total_ad_spend
NetProfit(gross_profit, total_refund_amount, etsy_fees_retained_on_refunds, total_ad_spend) ==
    gross_profit - total_refund_amount - etsy_fees_retained_on_refunds - total_ad_spend

\* fees taken on everything the buyers paid
TaxableAmountWithTax(gross_revenue, total_tax_collected, total_vat_collected) ==
    gross_revenue

\* taxable_amount = gross_revenue - total_tax_collected - total_vat_collected
TaxableAmount(gross_revenue, total_tax_collected, total_vat_collected) ==
    gross_revenue - total_tax_collected - total_vat_collected

CompletedOrders(rows) == {o \in rows : o.status \notin cancelled_statuses}

\* float(np.sum(grand_totals)) over the completed orders, in cents
GrossRevenue(rows) == SumOver(CompletedOrders(rows), LAMBDA o : o.grand_total)

\* the number of line items whose cost came from the source
LinesFrom(lines, source) == Cardinality({l \in lines : l.source = source})

\* the quantity of the line items whose cost came from the source
QtyFrom(lines, source) ==
    SumOver(lines, LAMBDA l : IF l.source = source THEN l.quantity ELSE 0)

\* the completed orders that name their buyer
WithBuyer(completed_orders) == {o \in completed_orders : o.buyer_user_id # 0}

\* the sums _calculate_metrics_from_rows takes over the completed orders and
\* over their line items; amounts in mills
Totals(rows, completed_orders, lines, total_ad_spend) ==
    [orders |-> Cardinality(rows),
     total_orders |-> Cardinality(completed_orders),
     gross_revenue |-> GrossRevenue(rows) * Mills,
     total_shipping_charged |->
         SumOver(completed_orders, LAMBDA o : o.total_shipping_cost) * Mills,
     total_tax_collected |-> SumOver(completed_orders, LAMBDA o : o.total_tax_cost) * Mills,
     total_vat_collected |-> SumOver(completed_orders, LAMBDA o : o.total_vat_cost) * Mills,
     total_discounts_given |-> SumOver(completed_orders, LAMBDA o : o.discount_amt) * Mills,
     total_gift_wrap_revenue |->
         SumOver(completed_orders, LAMBDA o : o.gift_wrap_price) * Mills,
     \* cost of goods with provenance
     cost_sources |-> [direct |-> QtyFrom(lines, "direct"),
                       sibling_same_period |-> QtyFrom(lines, "sibling_same_period"),
                       sibling_historical |-> QtyFrom(lines, "sibling_historical"),
                       missing |-> QtyFrom(lines, "missing")],
     total_cost |->
         SumOver(lines, LAMBDA l : IF l.cost > 0 THEN l.cost * l.quantity * Mills ELSE 0),
     total_quantity_with_cost |->
         SumOver(lines, LAMBDA l : IF l.cost > 0 THEN l.quantity ELSE 0),
     total_quantity_sold |-> SumOver(lines, LAMBDA l : l.quantity),
     unique_skus |->
         Cardinality(UNION {{_normalize_sku_for_comparison(o.transactions[i].sku) :
                                i \in DOMAIN o.transactions} : o \in completed_orders}
                       \ {None}),
     \* shipping side
     total_actual_shipping_cost |-> SumOver(lines, LAMBDA l : l.ship.shipping),
     total_us_import_duty |-> SumOver(lines, LAMBDA l : l.ship.duty),
     total_us_import_tax |-> SumOver(lines, LAMBDA l : l.ship.tax),
     total_fedex_processing_fee |-> SumOver(lines, LAMBDA l : l.ship.processing),
     \* orders, customers, operations
     total_items |-> SumOver(completed_orders, LAMBDA o : o.item_count),
     with_buyer |-> Cardinality(WithBuyer(completed_orders)),
     unique_customers |->
         Cardinality({o.buyer_user_id : o \in WithBuyer(completed_orders)}),
     shipped_count |-> Cardinality({o \in completed_orders : o.is_shipped}),
     gift_order_count |-> Cardinality({o \in completed_orders : o.is_gift}),
     \* refunds
     total_refund_amount |-> SumOver(completed_orders, LAMBDA o : o.refund_amount) * Mills,
     total_refund_count |-> SumOver(completed_orders, LAMBDA o : o.refund_count),
     orders_with_refunds |-> Cardinality({o \in completed_orders : o.refund_count > 0}),
     total_ad_spend |-> total_ad_spend]

\* the document compiled at the end of _calculate_metrics_from_rows from the
\* sums t over a non-empty set of completed orders
CompileMetrics(t, date_range) ==
    LET gross_revenue == t.gross_revenue
        total_shipping_charged == t.total_shipping_charged
        total_tax_collected == t.total_tax_collected
        total_vat_collected == t.total_vat_collected
        total_discounts_given == t.total_discounts_given
        total_gift_wrap_revenue == t.total_gift_wrap_revenue
        taxable_amount ==
            TaxableAmount(gross_revenue, total_tax_collected, total_vat_collected)
        etsy_transaction_fees == (taxable_amount \div Mills) * etsy_transaction_fee_rate
        etsy_processing_fees ==
            ((taxable_amount \div Mills) * etsy_processing_fee_rate)
                + t.total_orders * etsy_processing_fee_fixed * Mills
        total_etsy_fees == etsy_transaction_fees + etsy_processing_fees
        net_revenue_from_sales ==
            gross_revenue - total_etsy_fees - total_tax_collected - total_vat_collected
        product_revenue ==
            net_revenue_from_sales - total_shipping_charged - total_gift_wrap_revenue
        cost_sources == t.cost_sources
        total_cost == t.total_cost
        total_quantity_with_cost == t.total_quantity_with_cost
        total_quantity_sold == t.total_quantity_sold
        has_complete_cost_data ==
            total_quantity_sold > 0 /\ total_quantity_with_cost = total_quantity_sold
        total_actual_shipping_cost == t.total_actual_shipping_cost
        total_us_import_duty == t.total_us_import_duty
        total_us_import_tax == t.total_us_import_tax
        total_fedex_processing_fee == t.total_fedex_processing_fee
        shipping_profit == total_shipping_charged - total_actual_shipping_cost
        total_cost_with_shipping ==
            total_cost + total_actual_shipping_cost + total_us_import_duty
                + total_us_import_tax + total_fedex_processing_fee
        gross_profit == GrossProfit(net_revenue_from_sales, total_cost_with_shipping)
        contribution_margin == product_revenue - total_cost
        total_orders == t.total_orders
        total_items == t.total_items
        unique_customers == t.unique_customers
        repeat_customers == t.with_buyer - t.unique_customers
        shipped_count == t.shipped_count
        gift_order_count == t.gift_order_count
        total_refund_amount == t.total_refund_amount
        total_refund_count == t.total_refund_count
        orders_with_refunds == t.orders_with_refunds
        etsy_fees_retained_on_refunds ==
            (total_refund_amount \div Mills) * etsy_transaction_fee_rate
        total_ad_spend == t.total_ad_spend
        net_profit == NetProfit(gross_profit, total_refund_amount,
                                etsy_fees_retained_on_refunds, total_ad_spend)
        net_revenue_after_refunds ==
            net_revenue_from_sales - total_refund_amount - etsy_fees_retained_on_refunds
        period_days == DaysPerMonth * (date_range[2] - date_range[1] + 1)
    IN  [period_start |-> date_range[1], period_end |-> date_range[2],
         period_days |-> period_days,
         gross_revenue |-> Round2(gross_revenue), total_revenue |-> Round2(gross_revenue),
         product_revenue |-> Round2(product_revenue),
         total_shipping_charged |-> Round2(total_shipping_charged),
         total_tax_collected |-> Round2(total_tax_collected),
         total_vat_collected |-> Round2(total_vat_collected),
         total_gift_wrap_revenue |-> Round2(total_gift_wrap_revenue),
         total_discounts_given |-> Round2(total_discounts_given),
         etsy_transaction_fees |-> Round2(etsy_transaction_fees),
         etsy_processing_fees |-> Round2(etsy_processing_fees),
         total_etsy_fees |-> Round2(total_etsy_fees),
         etsy_fee_rate |-> Ratio4(total_etsy_fees, gross_revenue),
         net_revenue |-> Round2(net_revenue_from_sales),
         net_revenue_after_refunds |-> Round2(net_revenue_after_refunds),
         take_home_rate |-> Ratio4(net_revenue_from_sales, gross_revenue),
         discount_rate |-> Ratio4(total_discounts_given, gross_revenue),
         actual_shipping_cost |-> Round2(total_actual_shipping_cost),
         shipping_profit |-> Round2(shipping_profit),
         duty_amount |-> Round2(total_us_import_duty),
         tax_amount |-> Round2(total_us_import_tax),
         fedex_processing_fee |-> Round2(total_fedex_processing_fee),
         total_cost |-> Round2(total_cost),
         total_cost_with_shipping |-> Round2(total_cost_with_shipping),
         avg_cost_per_item |-> PerUnit2(total_cost, total_quantity_with_cost),
         cost_per_order |-> PerUnit2(total_cost_with_shipping, total_orders),
         contribution_margin |-> Round2(contribution_margin),
         gross_profit |-> Round2(gross_profit),
         gross_margin |-> Ratio4(gross_profit, gross_revenue),
         net_profit |-> Round2(net_profit),
         net_margin |-> Ratio4(net_profit, gross_revenue),
         return_on_revenue |-> Ratio4(net_profit, gross_revenue),
         markup_ratio |-> Ratio4(gross_profit, total_cost_with_shipping),
         total_ad_spend |-> Round2(total_ad_spend),
         ad_spend_rate |-> Ratio4(total_ad_spend, gross_revenue),
         roas |-> Ratio2(gross_revenue, total_ad_spend),
         total_orders |-> total_orders, total_items |-> total_items,
         total_quantity_sold |-> total_quantity_sold,
         unique_skus |-> t.unique_skus,
         average_order_value |-> PerUnit2(gross_revenue, total_orders),
         items_per_order |-> Ratio2(total_items, total_orders),
         revenue_per_item |-> PerUnit2(gross_revenue, total_items),
         profit_per_item |-> PerUnit2(gross_profit, total_items),
         unique_customers |-> unique_customers, repeat_customers |-> repeat_customers,
         customer_retention_rate |-> Ratio4(repeat_customers, unique_customers),
         revenue_per_customer |-> PerUnit2(gross_revenue, unique_customers),
         orders_per_customer |-> Ratio2(total_orders, unique_customers),
         profit_per_customer |-> PerUnit2(gross_profit, unique_customers),
         shipped_orders |-> shipped_count,
         shipping_rate |-> Ratio4(shipped_count, total_orders),
         gift_orders |-> gift_order_count,
         gift_rate |-> Ratio4(gift_order_count, total_orders),
         orders_per_day |-> Ratio2(total_orders, period_days),
         revenue_per_day |-> PerUnit2(gross_revenue, period_days),
         total_refund_amount |-> Round2(total_refund_amount),
         total_refund_count |-> total_refund_count,
         orders_with_refunds |-> orders_with_refunds,
         etsy_fees_retained_on_refunds |-> Round2(etsy_fees_retained_on_refunds),
         refund_rate_by_order |-> Ratio4(total_refund_count, total_orders),
         refund_rate_by_value |-> Ratio4(total_refund_amount, gross_revenue),
         order_refund_rate |-> Ratio4(orders_with_refunds, total_orders),
         cancelled_orders |-> t.orders - t.total_orders,
         cancellation_rate |->
             Ratio4(t.orders - t.total_orders, t.orders),
         completion_rate |-> Ratio4(total_orders, t.orders),
         total_inventory |-> 0, active_variants |-> 0,
         has_complete_cost_data |-> has_complete_cost_data,
         cost_coverage_percent |-> Ratio2(total_quantity_with_cost * 100, total_quantity_sold),
         cost_data_sources |-> cost_sources,
         items_with_direct_cost |-> cost_sources.direct,
         items_with_fallback_cost |->
             cost_sources.sibling_same_period + cost_sources.sibling_historical,
         items_missing_cost |-> cost_sources.missing]

\* int(txn.get('quantity', 0)) of the line-item loops raises on a line of a
\* completed order whose quantity is NULL; nothing in
\* _calculate_metrics_from_rows catches it
RowsRaise(rows) ==
    \E o \in CompletedOrders(rows) :
        \E i \in DOMAIN o.transactions : o.transactions[i].quantity = NoQuantity

\* asyncio.gather over the periods of the call raises when the calculation of
\* one of them does
GatherRaises(date_ranges, listing_id, sku) ==
    \E dr \in Range(date_ranges) : RowsRaise(QueryRows(dr, sku, listing_id))

\* total_ad_spend of _calculate_metrics_from_rows, in mills: the full spend at
\* shop or listing scope, the revenue share of the listing's spend at SKU scope
\* (to the nearest mill)
AdSpend(rows, date_range, sku, listing_id) ==
    IF sku = None THEN get_ad_spend_for_period(date_range, listing_id) * Mills
    ELSE LET product_listing_id == _get_listing_id_for_sku(sku)
             listing_ad_spend == get_ad_spend_for_period(date_range, product_listing_id)
             \* gross_revenue of calculate_metrics_batch([date_range], listing_id)
             listing_revenue ==
                 IF GatherRaises(<<date_range>>, product_listing_id, None) THEN 0
                 ELSE GrossRevenue(QueryRows(date_range, None, product_listing_id))
             gross_revenue == GrossRevenue(rows)
         IN  IF /\ product_listing_id # NoListing
                /\ listing_ad_spend > 0
                /\ listing_revenue > 0
                /\ gross_revenue > 0
             THEN MulDiv(listing_ad_spend * Mills, gross_revenue, listing_revenue)
             ELSE 0

_calculate_metrics_from_rows(rows, date_range, sku, listing_id) ==
    IF rows = {} THEN _empty_metrics(date_range)
    ELSE IF CompletedOrders(rows) = {} THEN _empty_metrics(date_range)
    ELSE CompileMetrics(
             Totals(rows, CompletedOrders(rows),
                    LineEntries(CompletedOrders(rows), sku, listing_id),
                    AdSpend(rows, date_range, sku, listing_id)),
             date_range)

\* the except branches of calculate_metrics_batch: empty metrics for every
\* period of the call
empty_results(date_ranges) ==
    [dr \in Range(date_ranges) |-> _empty_metrics(dr)]

\* {period_key: metrics}; a period key is identified with its date range
calculate_metrics_batch(date_ranges, listing_id, sku) ==
    IF date_ranges = <<>> THEN <<>>
    ELSE IF sku # None /\ _sku_to_products(sku) = <<>> THEN <<>>
    ELSE IF GatherRaises(date_ranges, listing_id, sku) THEN empty_results(date_ranges)
    ELSE [dr \in Range(date_ranges) |->
            _calculate_metrics_from_rows(QueryRows(dr, sku, listing_id), dr, sku, listing_id)]

\* the consecutive attempts of the query that end in a statement timeout,
\* when the call gets as far as the query; 0 when the query answers at once
Timeouts(period_type, date_ranges, listing_id, sku) ==
    LET failing == {f \in failing_queries :
                       <<f[1], f[2], f[3], f[4]>> = <<period_type, date_ranges, listing_id, sku>>}
    IN  IF failing = {} THEN 0 ELSE (CHOOSE f \in failing : TRUE)[5]

\* the retry loop around query_raw, from attempt on: "rows" when the attempt
\* answers, "skipped" when a timeout before the last attempt returns the empty
\* results, "raised" when the last attempt times out too
RetryLoop(attempt, timeouts) ==
    IF timeouts <= attempt THEN "rows"
    ELSE IF attempt < max_retries - 1 THEN "skipped"
    ELSE "raised"

\* the query, when the call gets as far as the query, yields no rows
QueryFails(period_type, date_ranges, listing_id, sku) ==
    RetryLoop(0, Timeouts(period_type, date_ranges, listing_id, sku)) # "rows"

\* what a call that gets as far as the query returns
QueryOutcome(all_metrics, fails, date_ranges) ==
    IF all_metrics = <<>> THEN all_metrics
    ELSE IF fails THEN empty_results(date_ranges)
    ELSE all_metrics

\* calculate_metrics_batch as the handlers of a run call it, against a
\* database that fails some of the queries
calculate_metrics_batch_in_run(date_ranges, period_type, listing_id, sku) ==
    QueryOutcome(calculate_metrics_batch(date_ranges, listing_id, sku),
                 QueryFails(period_type, date_ranges, listing_id, sku), date_ranges)

(***************************************************************************)
(* Hierarchical aggregator                                                 *)
(***************************************************************************)
\* the loop of _sum_metrics over the additive fields, r[f] = r.get(f, 0) +
\* m2.get(f, 0), in three parts; every document carries every one of the fields.
\* First the amounts and the counts
SumAmounts(r, m2) ==
    [r EXCEPT
        !.gross_revenue = @ + m2.gross_revenue,
        !.total_revenue = @ + m2.total_revenue,
        !.product_revenue = @ + m2.product_revenue,
        !.total_shipping_charged = @ + m2.total_shipping_charged,
        !.total_tax_collected = @ + m2.total_tax_collected,
        !.total_vat_collected = @ + m2.total_vat_collected,
        !.total_gift_wrap_revenue = @ + m2.total_gift_wrap_revenue,
        !.total_discounts_given = @ + m2.total_discounts_given,
        !.etsy_transaction_fees = @ + m2.etsy_transaction_fees,
        !.etsy_processing_fees = @ + m2.etsy_processing_fees,
        !.total_etsy_fees = @ + m2.total_etsy_fees,
        !.net_revenue = @ + m2.net_revenue,
        !.net_revenue_after_refunds = @ + m2.net_revenue_after_refunds,
        !.actual_shipping_cost = @ + m2.actual_shipping_cost,
        !.shipping_profit = @ + m2.shipping_profit,
        !.duty_amount = @ + m2.duty_amount,
        !.tax_amount = @ + m2.tax_amount,
        !.fedex_processing_fee = @ + m2.fedex_processing_fee,
        !.total_cost = @ + m2.total_cost,
        !.total_cost_with_shipping = @ + m2.total_cost_with_shipping,
        !.contribution_margin = @ + m2.contribution_margin,
        !.gross_profit = @ + m2.gross_profit,
        !.net_profit = @ + m2.net_profit,
        !.total_orders = @ + m2.total_orders,
        !.total_items = @ + m2.total_items,
        !.total_quantity_sold = @ + m2.total_quantity_sold,
        !.shipped_orders = @ + m2.shipped_orders,
        !.gift_orders = @ + m2.gift_orders,
        !.total_refund_amount = @ + m2.total_refund_amount,
        !.total_refund_count = @ + m2.total_refund_count,
        !.orders_with_refunds = @ + m2.orders_with_refunds,
        !.etsy_fees_retained_on_refunds = @ + m2.etsy_fees_retained_on_refunds,
        !.cancelled_orders = @ + m2.cancelled_orders,
        !.unique_customers = @ + m2.unique_customers,
        !.repeat_customers = @ + m2.repeat_customers,
        !.total_inventory = @ + m2.total_inventory,
        !.active_variants = @ + m2.active_variants]

\* a loop that leaves out the cost tracking fields
KeepCostTracking(r, m2) == r

\* then the cost tracking fields
SumCostTracking(r, m2) ==
    [r EXCEPT
        !.items_with_direct_cost = @ + m2.items_with_direct_cost,
        !.items_with_fallback_cost = @ + m2.items_with_fallback_cost,
        !.items_missing_cost = @ + m2.items_missing_cost]

\* and the ad spend
SumAdSpend(r, m2) ==
    [r EXCEPT
        !.total_ad_spend = @ + m2.total_ad_spend]

\* r = m1.copy() followed by the loop
SumAdditive(m1, m2) == SumAdSpend(SumCostTracking(SumAmounts(m1, m2), m2), m2)

\* a / b, kept exact
Div(a, b) == Frac(a, b)

\* the rest of _sum_metrics on r, the copy of m1 with the additive fields summed
Recalculate(r, m1, m2) ==
    LET total_items_counted ==
            r.items_with_direct_cost + r.items_with_fallback_cost + r.items_missing_cost
        gross_revenue == IF r.gross_revenue # 0 THEN r.gross_revenue ELSE r.total_revenue
        total_orders == r.total_orders
        total_items == r.total_items
        unique_customers == r.unique_customers
        total_cost == r.total_cost
        total_cost_with_shipping == r.total_cost_with_shipping
        gross_profit == r.gross_profit
        net_profit == r.net_profit
        net_revenue == r.net_revenue
        total_etsy_fees == r.total_etsy_fees
        src(k) == m1.cost_data_sources[k] + m2.cost_data_sources[k]
    IN  [r EXCEPT
            !.cost_data_sources =
                [direct |-> src("direct"),
                 sibling_same_period |-> src("sibling_same_period"),
                 sibling_historical |-> src("sibling_historical"),
                 missing |-> src("missing")],
            !.cost_coverage_percent =
                IF total_items_counted > 0
                THEN Div((r.items_with_direct_cost + r.items_with_fallback_cost) * 100,
                         total_items_counted)
                ELSE Zero,
            !.has_complete_cost_data =
                IF total_items_counted > 0 THEN r.items_missing_cost = 0 ELSE FALSE,
            \* revenue-based rates
            !.discount_rate = IF gross_revenue > 0 THEN Div(r.total_discounts_given, gross_revenue) ELSE @,
            !.gross_margin = IF gross_revenue > 0 THEN Div(gross_profit, gross_revenue) ELSE @,
            !.net_margin = IF gross_revenue > 0 THEN Div(net_profit, gross_revenue) ELSE @,
            !.return_on_revenue = IF gross_revenue > 0 THEN Div(net_profit, gross_revenue) ELSE @,
            !.etsy_fee_rate = IF gross_revenue > 0 THEN Div(total_etsy_fees, gross_revenue) ELSE @,
            !.take_home_rate = IF gross_revenue > 0 THEN Div(net_revenue, gross_revenue) ELSE @,
            !.refund_rate_by_value = IF gross_revenue > 0 THEN Div(r.total_refund_amount, gross_revenue) ELSE @,
            \* cost-based ratios
            !.markup_ratio =
                IF total_cost_with_shipping > 0 THEN Div(gross_profit, total_cost_with_shipping)
                ELSE IF total_cost > 0 THEN Div(gross_profit, total_cost) ELSE @,
            \* order-based averages
            !.average_order_value = IF total_orders > 0 THEN Div(gross_revenue, total_orders) ELSE @,
            !.items_per_order = IF total_orders > 0 THEN Div(total_items, total_orders) ELSE @,
            !.cost_per_order =
                IF total_orders > 0
                THEN IF total_cost_with_shipping > 0
                     THEN Div(total_cost_with_shipping, total_orders)
                     ELSE Div(total_cost, total_orders)
                ELSE @,
            !.refund_rate_by_order = IF total_orders > 0 THEN Div(r.total_refund_count, total_orders) ELSE @,
            !.order_refund_rate = IF total_orders > 0 THEN Div(r.orders_with_refunds, total_orders) ELSE @,
            \* item-based averages
            !.revenue_per_item = IF total_items > 0 THEN Div(gross_revenue, total_items) ELSE @,
            !.profit_per_item = IF total_items > 0 THEN Div(gross_profit, total_items) ELSE @,
            !.avg_cost_per_item = IF total_items > 0 THEN Div(total_cost, total_items) ELSE @,
            \* customer-based metrics
            !.revenue_per_customer = IF unique_customers > 0 THEN Div(gross_revenue, unique_customers) ELSE @,
            !.orders_per_customer = IF unique_customers > 0 THEN Div(total_orders, unique_customers) ELSE @,
            !.profit_per_customer = IF unique_customers > 0 THEN Div(gross_profit, unique_customers) ELSE @,
            !.period_days = m1.period_days]

_sum_metrics(m1, m2) == Recalculate(SumAdditive(m1, m2), m1, m2)

\* store[entity][period_key] if both keys are present: <<>> or <<metrics>>
Lookup(store, entity, period_key) ==
    IF entity \in DOMAIN store
    THEN IF period_key \in DOMAIN store[entity] THEN <<store[entity][period_key]>> ELSE <<>>
    ELSE <<>>

\* agg['period_start'], agg['period_end'] = date_range.start_date, date_range.end_date
Stamp(agg, date_range) ==
    [agg EXCEPT !.period_start = date_range[1], !.period_end = date_range[2]]

\* if agg: the period is stamped on it
Stamped(agg, date_range) ==
    IF agg # <<>> THEN <<Stamp(agg[1], date_range)>> ELSE agg

RECURSIVE FoldSkus(_, _, _, _)
\* the loop of _aggregate_from_skus; agg is <<>> (None) or <<metrics>>.  The
\* store of a run that computes the SKU documents holds no '_normalized_index',
\* so only the lookup by the SKU itself can hit.
FoldSkus(agg, sku_list, period_key, sku_store) ==
    IF sku_list = <<>> THEN agg
    ELSE LET hit == Lookup(sku_store, Head(sku_list), period_key)
             next == IF hit = <<>> THEN agg
                     ELSE IF agg = <<>> THEN hit
                     ELSE <<_sum_metrics(agg[1], hit[1])>>
         IN  FoldSkus(next, Tail(sku_list), period_key, sku_store)

\* <<>> (None) or <<metrics>>
_aggregate_from_skus(sku_list, period_key, sku_store, date_range) ==
    Stamped(FoldSkus(<<>>, sku_list, period_key, sku_store), date_range)

\* a rollup that skips no listing
SkipNoListing(listing_metrics) == FALSE

\* if not listing_metrics.get('has_complete_cost_data', False): skip
SkipListing(listing_metrics) == ~listing_metrics.has_complete_cost_data

RECURSIVE FoldListings(_, _, _, _)
\* the loop of _aggregate_from_listings: [agg |-> <<>> or <<metrics>>,
\* skipped_listings |-> the listing ids skipped so far]
FoldListings(acc, listing_ids, period_key, listing_store) ==
    IF listing_ids = <<>> THEN acc
    ELSE LET lid == Head(listing_ids)
             hit == Lookup(listing_store, lid, period_key)
             next == IF hit = <<>> THEN acc
                     ELSE IF SkipListing(hit[1])
                          THEN [acc EXCEPT !.skipped_listings = Append(@, lid)]
                     ELSE IF acc.agg = <<>> THEN [acc EXCEPT !.agg = hit]
                     ELSE [acc EXCEPT !.agg = <<_sum_metrics(acc.agg[1], hit[1])>>]
         IN  FoldListings(next, Tail(listing_ids), period_key, listing_store)

\* agg['listings_skipped_no_cost'] = len(skipped_listings)
\* agg['listings_included'] = len(listing_ids) - len(skipped_listings)
WithTally(agg, skipped, included) ==
    [f \in DOMAIN agg \cup {"listings_skipped_no_cost", "listings_included"} |->
        CASE f = "listings_skipped_no_cost" -> skipped
          [] f = "listings_included" -> included
          [] OTHER -> agg[f]]

\* if agg: the period and the tally of the loop are stamped on it
Tallied(acc, listing_ids, date_range) ==
    IF acc.agg # <<>>
    THEN <<WithTally(Stamp(acc.agg[1], date_range), Len(acc.skipped_listings),
                     Len(listing_ids) - Len(acc.skipped_listings))>>
    ELSE <<>>

\* <<>> (None) or <<metrics>>
_aggregate_from_listings(listing_ids, period_key, listing_store, date_range) ==
    Tallied(FoldListings([agg |-> <<>>, skipped_listings |-> <<>>],
                         listing_ids, period_key, listing_store),
            listing_ids, date_range)

\* The dict objects behind the documents.  An object is <<>> for a dict the call
\* has made itself and <<entity, period_key>> for the dict a store holds for the
\* entity and the period.
\* an assignment that binds the name to the dict itself
same_dict(object) == object

\* d.copy(): a new dict with the items of d
dict_copy(object) == <<>>

RECURSIVE AggObject(_, _)
\* the dict agg is bound to after the loop over the children that were found:
\* child.copy() for the first, r = m1.copy() of _sum_metrics for every further one
AggObject(found, period_key) ==
    IF found = <<>> THEN <<>>
    ELSE IF Len(found) = 1 THEN dict_copy(<<found[1], period_key>>)
    ELSE dict_copy(AggObject(SubSeq(found, 1, Len(found) - 1), period_key))

\* the children _aggregate_from_skus and _aggregate_from_listings take into agg
FoundSkus(sku_list, period_key, sku_store) ==
    SelectSeq(sku_list, LAMBDA sku : Lookup(sku_store, sku, period_key) # <<>>)

FoundListings(listing_ids, period_key, listing_store) ==
    SelectSeq(listing_ids,
        LAMBDA lid : /\ Lookup(listing_store, lid, period_key) # <<>>
                     /\ ~SkipListing(listing_store[lid][period_key]))

\* the SKU store after _aggregate_from_skus has written the sums and the period
\* into agg for every period: a stored dict that agg is bound to holds them
SkuStoreAfter(child_skus, sku_store) ==
    [c \in DOMAIN sku_store |->
        [k \in DOMAIN sku_store[c] |->
            IF AggObject(FoundSkus(child_skus, k, sku_store), k) = <<c, k>>
            THEN _aggregate_from_skus(child_skus, k, sku_store, k[2])[1]
            ELSE sku_store[c][k]]]

\* the listing store after _aggregate_from_listings has written into agg for
\* every period of the period type
ListingStoreAfter(listing_ids, period_type, listing_store) ==
    [lid \in DOMAIN listing_store |->
        [k \in DOMAIN listing_store[lid] |->
            IF /\ k[1] = period_type
               /\ AggObject(FoundListings(listing_ids, k, listing_store), k) = <<lid, k>>
            THEN _aggregate_from_listings(listing_ids, k, listing_store, k[2])[1]
            ELSE listing_store[lid][k]]]

(***************************************************************************)
(* Periods and entities of one run                                         *)
(***************************************************************************)
RECURSIVE SortedSeq(_)
\* ORDER BY on a set of integers
SortedSeq(S) == IF S = {} THEN <<>>
                ELSE LET m == CHOOSE x \in S : \A y \in S : x <= y
                     IN  <<m>> \o SortedSeq(S \ {m})

\* earliest and latest createdTimestamp of table orders (both in one year)
get_date_ranges_from_database ==
    IF orders = {} THEN <<>>
    ELSE LET ts == {o.created_timestamp : o \in orders}
         IN  <<CHOOSE a \in ts : \A b \in ts : a <= b,
               CHOOSE a \in ts : \A b \in ts : b <= a>>

\* the yearly and the monthly periods; the month is the unit of time, so the
\* weekly periods, which the run treats like the monthly ones, have no image
generate_time_periods(start_date, end_date) ==
    [yearly |-> << <<start_date, end_date>> >>,
     monthly |-> [i \in 1..(end_date - start_date + 1) |->
                    <<start_date + i - 1, start_date + i - 1>>]]

period_types == <<"yearly", "monthly">>

\* the periods of the run; a run without orders returns before it has any
periods ==
    IF get_date_ranges_from_database = <<>> THEN [yearly |-> <<>>, monthly |-> <<>>]
    ELSE generate_time_periods(get_date_ranges_from_database[1],
                               get_date_ranges_from_database[2])

\* full_key = f"{period_type}_{period_key}"
FullKey(period_type, dr) == <<period_type, dr>>

\* SELECT DISTINCT listing_id FROM order_transactions ... ORDER BY listing_id
get_all_listings ==
    SortedSeq(UNION {{o.transactions[i].listing_id : i \in DOMAIN o.transactions} :
                        o \in orders} \ {NoListing})

(***************************************************************************)
(* The three report handlers                                               *)
(***************************************************************************)
\* a document is saved as soon as it has orders
SaveableWithoutCost(metrics) == metrics.total_orders > 0

\* a document is saved only with orders and a non-zero total cost
Saveable(metrics) == metrics.total_orders > 0 /\ metrics.total_cost # 0

\* all period keys of the run, as <<period_type, date range>>
AllKeys ==
    UNION {{FullKey(pt, dr) : dr \in Range(periods[pt])} : pt \in Range(period_types)}

\* all_metrics.items() of one calculate_metrics_batch call, as pairs
\* <<full key, metrics>>
Items(period_type, all_metrics) ==
    {<<FullKey(period_type, dr), all_metrics[dr]>> : dr \in DOMAIN all_metrics}

BatchItems(period_type, listing_id, sku) ==
    Items(period_type,
          calculate_metrics_batch_in_run(periods[period_type], period_type, listing_id, sku))

\* the dictionary {full key: metrics} of a set of such pairs
Kept(items) ==
    [k \in {p[1] : p \in items} |-> (CHOOSE p \in items : p[1] = k)[2]]

\* _process_sku_reports_with_cache: what it leaves in cache_store[sku]
SkuDocs(sku) ==
    LET all_metrics == UNION {BatchItems(pt, NoListing, sku) : pt \in Range(period_types)}
    IN  Kept({p \in all_metrics : Saveable(p[2])})

\* [sku for sku, pids in self._sku_to_products.items()
\*      if any(pid in child_product_ids for pid in pids)]
ListingChildSkus(listing_id) ==
    LET child_product_ids == _listing_to_products(listing_id)
    IN  IF child_product_ids = <<>> THEN <<>>
        ELSE SelectSeq(SkuKeys,
                LAMBDA sku : \E pid \in Range(_sku_to_products(sku)) :
                                 pid \in Range(child_product_ids))

\* if not aggregated_metrics or aggregated_metrics.get('total_orders', 0) == 0:
\* the direct calculation takes its place, if it gives a document
OrDirect(aggregated_metrics, batch_metrics, dr) ==
    IF aggregated_metrics = <<>> \/ aggregated_metrics[1].total_orders = 0
    THEN IF batch_metrics # <<>> THEN <<batch_metrics[dr]>> ELSE aggregated_metrics
    ELSE aggregated_metrics

\* one (period_type, dr) step of _process_listing_reports_aggregated:
\* <<>> (None) or <<metrics>>
ListingPeriodMetrics(listing_id, child_skus, period_type, dr) ==
    OrDirect(_aggregate_from_skus(child_skus, FullKey(period_type, dr),
                                  sku_metrics_store, dr),
             calculate_metrics_batch_in_run(<<dr>>, period_type, listing_id, None), dr)

\* _process_listing_reports_direct: what it leaves in cache_store[listing_id]
ListingDocsDirect(listing_id) ==
    LET all_metrics == UNION {BatchItems(pt, listing_id, None) : pt \in Range(period_types)}
    IN  Kept({p \in all_metrics : Saveable(p[2])})

\* _process_listing_reports_aggregated: what it leaves in
\* listing_cache_store[listing_id]
ListingDocs(listing_id) ==
    LET child_skus == ListingChildSkus(listing_id)
        found == {<<k, ListingPeriodMetrics(listing_id, child_skus, k[1], k[2])>> : k \in AllKeys}
        some == {<<p[1], p[2][1]>> : p \in {q \in found : q[2] # <<>>}}
    IN  IF child_skus = <<>> THEN ListingDocsDirect(listing_id)
        ELSE Kept({p \in some : Saveable(p[2])})

\* list(listing_metrics_store.keys()): the tasks of a chunk run up to their first
\* suspension in the order of all_listings, and each inserts its key before it
\* suspends, so the keys are in the order of all_listings
StoreKeys(store) == Filter(get_all_listings, DOMAIN store)

\* one date range of _process_shop_reports_aggregated: <<>> (None) or <<metrics>>
ShopPeriodMetrics(period_type, dr) ==
    OrDirect(IF DOMAIN listing_metrics_store # {}
             THEN _aggregate_from_listings(StoreKeys(listing_metrics_store),
                      FullKey(period_type, dr), listing_metrics_store, dr)
             ELSE <<>>,
             calculate_metrics_batch_in_run(<<dr>>, period_type, NoListing, None), dr)

\* the documents _process_shop_reports_aggregated hands to save_shop_report
ShopDocs(period_type) ==
    LET keys == {FullKey(period_type, dr) : dr \in Range(periods[period_type])}
        found == {<<k, ShopPeriodMetrics(k[1], k[2])>> : k \in keys}
        some == {<<p[1], p[2][1]>> : p \in {q \in found : q[2] # <<>>}}
    IN  Kept({p \in some : Saveable(p[2])})

(***************************************************************************)
(* Inputs: the rows the database and cost.csv may hold                     *)
(***************************************************************************)
Line(sku, product_id, listing_id, quantity, price) ==
    [sku |-> sku, product_id |-> product_id, listing_id |-> listing_id,
     quantity |-> quantity, price |-> price]

LineWal(quantity) == Line(SkuWal, 1, 10, quantity, 799)
LineWalRed(quantity) == Line(SkuWalRed, 2, 10, quantity, 1049)
LineBag(quantity) == Line(SkuBag, 3, 20, quantity, 1500)

\* an order row; grand_total = items + shipping + tax + vat + gift wrap - discount
Order(order_id, month, status, country, transactions, extra) ==
    LET items == SumSeq([i \in DOMAIN transactions |->
                            transactions[i].price * transactions[i].quantity])
    IN  [order_id |-> order_id, created_timestamp |-> month, status |-> status,
         country |-> country, transactions |-> transactions,
         item_count |-> SumSeq([i \in DOMAIN transactions |-> transactions[i].quantity]),
         total_shipping_cost |-> extra.shipping, total_tax_cost |-> extra.tax,
         total_vat_cost |-> extra.vat, discount_amt |-> extra.discount,
         gift_wrap_price |-> extra.gift_wrap,
         grand_total |-> items + extra.shipping + extra.tax + extra.vat
                            + extra.gift_wrap - extra.discount,
         buyer_user_id |-> extra.buyer, is_shipped |-> extra.shipped,
         is_gift |-> extra.gift_wrap > 0,
         refund_amount |-> extra.refund,
         refund_count |-> IF extra.refund > 0 THEN 1 ELSE 0]

Plain == [shipping |-> 0, tax |-> 0, vat |-> 0, discount |-> 0, gift_wrap |-> 0,
          buyer |-> 0, shipped |-> FALSE, refund |-> 0]

OrderPool ==
    {Order(1, 1, "completed", "US", <<LineWal(1)>>,
           [Plain EXCEPT !.shipping = 150, !.buyer = 1, !.shipped = TRUE]),
     Order(2, LastMonth, "completed", "DE", <<LineWal(2)>>,
           [Plain EXCEPT !.shipping = 290, !.buyer = 1, !.refund = 500]),
     Order(3, 1, "cancelled", "US", <<LineWal(1)>>, [Plain EXCEPT !.buyer = 2]),
     Order(4, 1, "completed", "US", <<LineWalRed(1)>>,
           [Plain EXCEPT !.gift_wrap = 135, !.buyer = 2]),
     Order(5, LastMonth, "completed", "DE", <<LineWalRed(3)>>,
           [Plain EXCEPT !.discount = 133, !.buyer = 3, !.shipped = TRUE]),
     Order(6, 1, "canceled", "US", <<LineWalRed(1)>>, Plain),
     Order(7, 1, "completed", "US", <<LineBag(1)>>,
           [Plain EXCEPT !.tax = 51, !.shipped = TRUE]),
     Order(8, LastMonth, "completed", "GB", <<LineBag(2)>>,
           [Plain EXCEPT !.vat = 207, !.refund = 1000, !.buyer = 3]),
     Order(9, 1, "completed", "US", <<LineWal(1), LineWalRed(1)>>,
           [Plain EXCEPT !.shipping = 170, !.buyer = 1, !.shipped = TRUE]),
     Order(10, LastMonth, "completed", "DE", <<LineWal(1), LineBag(1)>>,
           [Plain EXCEPT !.buyer = 4])}

\* rows of cost.csv: a dated US column per month, unless stated otherwise
CostRow(sku, Cell(_)) == [SKU |-> sku, cells |-> [c \in CostColumns |-> Cell(c)]]

\* the same cost in every month of the year
Full(sku, cost) ==
    CostRow(sku, LAMBDA c : IF c[1] = "US" /\ c[2] = BaseYear THEN cost ELSE NaN)
\* the cost in month 1, an explicit 0 in the later months
ZeroLater(sku, cost) ==
    CostRow(sku, LAMBDA c : IF c[1] = "US" /\ c[2] = BaseYear
                            THEN (IF c[3] = 1 THEN cost ELSE 0) ELSE NaN)
\* only the EU columns are filled
EuOnly(sku, cost) ==
    CostRow(sku, LAMBDA c : IF c[1] = "EU" THEN cost ELSE NaN)
\* only a column of the year before is filled
LastYearOnly(sku, cost) ==
    CostRow(sku, LAMBDA c : IF c[2] = BaseYear - 1 THEN cost ELSE NaN)
\* a row of zeros
AllZero(sku) == CostRow(sku, LAMBDA c : 0)
\* an explicit 0 in the US columns, the cost in the EU columns
ZeroUsThenEu(sku, cost) ==
    CostRow(sku, LAMBDA c : IF c[1] = "EU" THEN cost
                            ELSE IF c[2] = BaseYear THEN 0 ELSE NaN)

CostTables ==
    { <<>>,
      <<Full(SkuWal, 300), Full(SkuWalRed, 400), Full(SkuBag, 600)>>,
      <<Full(SkuWal, 300), Full(SkuBag, 600)>>,
      <<Full(SkuWal, 300), Full(SkuWalRed, 400), ZeroLater(SkuBag, 600)>>,
      <<ZeroLater(SkuWal, 300), Full(<<"EU-", "walred">>, 400)>>,
      <<ZeroLater(SkuWal, 300), ZeroLater(SkuWalRed, 400), ZeroLater(SkuBag, 600)>>,
      <<EuOnly(SkuWalRed, 400), LastYearOnly(SkuBag, 600)>>,
      <<Full(SkuWal, 300), AllZero(SkuWalRed), Full(SkuBag, 600)>>,
      <<AllZero(SkuWal), Full(SkuWal, 300), LastYearOnly(<<"bag">>, 600)>> }

\* three of the tables: complete, one SKU without a row, costs that end
CalcTables ==
    { <<Full(SkuWal, 300), Full(SkuWalRed, 400), Full(SkuBag, 600)>>,
      <<Full(SkuWal, 300), Full(SkuBag, 600)>>,
      <<ZeroLater(SkuWal, 300), ZeroLater(SkuWalRed, 400), ZeroLater(SkuBag, 600)>> }

AdTables ==
    { {}, {[listing_id |-> 10, month |-> 1, spend |-> 300]} }

(***************************************************************************)
(* The run: generate_all_insights_batch                                    *)
(***************************************************************************)
NoQuery == [sku |-> None, year |-> BaseYear, month |-> 1, listing_id |-> NoListing]

Init ==
    /\ orders \in {S \in SUBSET OrderPool : Cardinality(S) <= MaxOrders}
    /\ cost_data \in CostTables
    /\ listing_ad_stats \in AdTables
    /\ phase = "start"
    /\ sku_tasks_done = {}
    /\ listing_tasks_done = {}
    /\ shop_tasks_done = <<>>
    /\ sku_metrics_store = <<>>
    /\ listing_metrics_store = <<>>
    /\ product_reports = <<>>
    /\ listing_reports = <<>>
    /\ shop_reports = <<>>
    /\ cost_query = NoQuery
    /\ cost_answer = <<>>
    /\ call_args = <<>>
    /\ call_result = <<>>
    /\ failing_queries = {}
    /\ inside = {}
    /\ max_concurrent = default_max_concurrent

\* rows written by save_*_report for one entity: keyed by entity and period
Saved(entity, docs) ==
    [k \in {<<entity, key[1], key[2]>> : key \in DOMAIN docs} |-> docs[<<k[2], k[3]>>]]

\* the run reads the date range of the orders; without orders it returns
StartRun ==
    /\ phase = "start"
    /\ phase' = IF get_date_ranges_from_database = <<>> THEN "done" ELSE "products"
    /\ UNCHANGED <<orders, cost_data, listing_ad_stats, sku_tasks_done,
                   listing_tasks_done, shop_tasks_done, sku_metrics_store,
                   listing_metrics_store, product_reports, listing_reports,
                   shop_reports, cost_query, cost_answer,
                   call_args, call_result, failing_queries, inside,
                   max_concurrent>>

\* phase 1: one task of the gather, _process_sku_reports_with_cache(sku, ...)
ProcessSku(sku) ==
    /\ phase = "products"
    /\ sku \notin sku_tasks_done
    /\ \E docs \in {SkuDocs(sku)} :
           /\ sku_metrics_store' = (sku :> docs) @@ sku_metrics_store
           /\ product_reports' = Saved(sku, docs) @@ product_reports
    /\ sku_tasks_done' = sku_tasks_done \cup {sku}
    /\ UNCHANGED <<orders, cost_data, listing_ad_stats, phase, listing_tasks_done,
                   shop_tasks_done, listing_metrics_store, listing_reports,
                   shop_reports, cost_query, cost_answer,
                   call_args, call_result, failing_queries, inside,
                   max_concurrent>>

first_returned(tasks, done) == done # {} \/ tasks = <<>>

\* asyncio.gather over the chunks of tasks returns when every task has finished
gather_returned(tasks, done) == done = Range(tasks)

\* the gather of phase 1 has returned
StartListings ==
    /\ phase = "products"
    /\ gather_returned(get_all_skus, sku_tasks_done)
    /\ phase' = "listings"
    /\ UNCHANGED <<orders, cost_data, listing_ad_stats, sku_tasks_done,
                   listing_tasks_done, shop_tasks_done, sku_metrics_store,
                   listing_metrics_store, product_reports, listing_reports,
                   shop_reports, cost_query, cost_answer,
                   call_args, call_result, failing_queries, inside,
                   max_concurrent>>

\* phase 2: one task of the gather, _process_listing_reports_aggregated
ProcessListing(listing_id) ==
    /\ phase = "listings"
    /\ listing_id \notin listing_tasks_done
    /\ \E docs \in {ListingDocs(listing_id)} :
           /\ listing_metrics_store' = (listing_id :> docs) @@ listing_metrics_store
           /\ listing_reports' = Saved(listing_id, docs) @@ listing_reports
    /\ listing_tasks_done' = listing_tasks_done \cup {listing_id}
    /\ sku_metrics_store' = SkuStoreAfter(ListingChildSkus(listing_id), sku_metrics_store)
    /\ UNCHANGED <<orders, cost_data, listing_ad_stats, phase, sku_tasks_done,
                   shop_tasks_done, product_reports,
                   shop_reports, cost_query, cost_answer,
                   call_args, call_result, failing_queries, inside,
                   max_concurrent>>

\* the gather of phase 2 has returned
StartShop ==
    /\ phase = "listings"
    /\ gather_returned(get_all_listings, listing_tasks_done)
    /\ phase' = "shop"
    /\ UNCHANGED <<orders, cost_data, listing_ad_stats, sku_tasks_done,
                   listing_tasks_done, shop_tasks_done, sku_metrics_store,
                   listing_metrics_store, product_reports, listing_reports,
                   shop_reports, cost_query, cost_answer,
                   call_args, call_result, failing_queries, inside,
                   max_concurrent>>

\* phase 3: the shop tasks are awaited one after the other, one per period type
ProcessShop ==
    /\ phase = "shop"
    /\ Len(shop_tasks_done) < Len(period_types)
    /\ LET period_type == period_types[Len(shop_tasks_done) + 1]
       IN  /\ shop_reports' = ShopDocs(period_type) @@ shop_reports
           /\ shop_tasks_done' = Append(shop_tasks_done, period_type)
           /\ listing_metrics_store' =
                  ListingStoreAfter(StoreKeys(listing_metrics_store), period_type,
                                    listing_metrics_store)
    /\ UNCHANGED <<orders, cost_data, listing_ad_stats, phase, sku_tasks_done,
                   listing_tasks_done, sku_metrics_store,
                   product_reports, listing_reports, cost_query, cost_answer,
                   call_args, call_result, failing_queries, inside,
                   max_concurrent>>

\* all shop tasks have been awaited
Finish ==
    /\ phase = "shop"
    /\ Len(shop_tasks_done) = Len(period_types)
    /\ phase' = "done"
    /\ UNCHANGED <<orders, cost_data, listing_ad_stats, sku_tasks_done,
                   listing_tasks_done, shop_tasks_done, sku_metrics_store,
                   listing_metrics_store, product_reports, listing_reports,
                   shop_reports, cost_query, cost_answer,
                   call_args, call_result, failing_queries, inside,
                   max_concurrent>>

Next ==
    \/ StartRun
    \/ \E sku \in Range(get_all_skus) : ProcessSku(sku)
    \/ StartListings
    \/ \E listing_id \in Range(get_all_listings) : ProcessListing(listing_id)
    \/ StartShop
    \/ ProcessShop
    \/ Finish

Spec == Init /\ [][Next]_vars

(***************************************************************************)
(* The run against a database that fails some of its queries               *)
(***************************************************************************)
MaxFailures == 1        \* queries that fail in one run

\* the calculate_metrics_batch calls the handlers of a run can make
QueriesOfRun ==
    UNION {{<<pt, periods[pt], NoListing, sku>> : sku \in Range(get_all_skus)}
             \cup {<<pt, <<dr>>, listing_id, None>> :
                      dr \in Range(periods[pt]),
                      listing_id \in Range(get_all_listings) \cup {NoListing}} :
           pt \in Range(period_types)}

\* the queries of F time out on their first attempts
TimingOut(F, timeouts) == {<<q[1], q[2], q[3], q[4], timeouts>> : q \in F}

InitFail ==
    /\ orders \in {S \in SUBSET OrderPool : Cardinality(S) <= MaxOrders}
    /\ cost_data \in CalcTables
    /\ failing_queries \in {TimingOut(F, 1) :
                                F \in {G \in SUBSET QueriesOfRun :
                                          Cardinality(G) <= MaxFailures}}
    /\ inside = {}
    /\ max_concurrent = default_max_concurrent
    /\ listing_ad_stats = {}
    /\ phase = "start"
    /\ sku_tasks_done = {}
    /\ listing_tasks_done = {}
    /\ shop_tasks_done = <<>>
    /\ sku_metrics_store = <<>>
    /\ listing_metrics_store = <<>>
    /\ product_reports = <<>>
    /\ listing_reports = <<>>
    /\ shop_reports = <<>>
    /\ cost_query = NoQuery
    /\ cost_answer = <<>>
    /\ call_args = <<>>
    /\ call_result = <<>>

SpecFail == InitFail /\ [][Next]_vars

(***************************************************************************)
(* The cost resolver on its own: one get_cost_with_fallback call against   *)
(* any of a wider family of cost tables                                    *)
(***************************************************************************)
\* the shapes a row of cost.csv may have for one SKU; <<>> when it has no row
RowShapes(sku, cost) ==
    {<<>>, <<Full(sku, cost)>>, <<ZeroLater(sku, cost)>>, <<EuOnly(sku, cost)>>,
     <<LastYearOnly(sku, cost)>>, <<AllZero(sku)>>}

SiblingTables ==
    {w \o r : w \in RowShapes(SkuWal, 300), r \in RowShapes(<<"EU-", "walred">>, 400)}

\* tables whose first column of a month holds 0 while the column of another
\* region holds a cost
ZeroFirstTables ==
    {<<ZeroUsThenEu(SkuWal, 300)>>, <<ZeroUsThenEu(SkuWal, 300), Full(SkuWalRed, 400)>>}

QuerySkus == {SkuWal, SkuWalRed, SkuBag, <<"DELETED-", "OT-", "Wal">>}

CostQueries ==
    [sku : QuerySkus, year : {BaseYear}, month : 1..LastMonth,
     listing_id : {NoListing, 10, 20}]

InitCost ==
    /\ cost_data \in CostTables \cup SiblingTables \cup ZeroFirstTables
    /\ cost_query \in CostQueries
    /\ cost_answer = <<>>
    /\ orders = {}
    /\ listing_ad_stats = {}
    /\ phase = "done"
    /\ sku_tasks_done = {}
    /\ listing_tasks_done = {}
    /\ shop_tasks_done = <<>>
    /\ sku_metrics_store = <<>>
    /\ listing_metrics_store = <<>>
    /\ product_reports = <<>>
    /\ listing_reports = <<>>
    /\ shop_reports = <<>>
    /\ call_args = <<>>
    /\ call_result = <<>>
    /\ failing_queries = {}
    /\ inside = {}
    /\ max_concurrent = default_max_concurrent

ResolveCost ==
    /\ cost_answer = <<>>
    /\ cost_answer' = get_cost_with_fallback(cost_query.sku, cost_query.year,
                                             cost_query.month, cost_query.listing_id)
    /\ UNCHANGED <<orders, cost_data, listing_ad_stats, phase, sku_tasks_done,
                   listing_tasks_done, shop_tasks_done, sku_metrics_store,
                   listing_metrics_store, product_reports, listing_reports,
                   shop_reports, cost_query, call_args, call_result, failing_queries, inside,
                   max_concurrent>>

NextCost == ResolveCost

SpecCost == InitCost /\ [][NextCost]_vars

(***************************************************************************)
(* The metrics calculator on its own: one calculation for an entity and a  *)
(* period, over orders that also spell their country in other ways         *)
(***************************************************************************)
CountryPool ==
    {Order(11, 1, "completed", "us", <<LineWal(2)>>, [Plain EXCEPT !.tax = 40]),
     Order(12, 1, "completed", "United States", <<LineWalRed(1), LineBag(2)>>,
           [Plain EXCEPT !.shipping = 120]),
     Order(13, LastMonth, "completed", "FR", <<LineBag(2)>>, [Plain EXCEPT !.vat = 300]),
     Order(14, LastMonth, "completed", NoCountry, <<LineWal(3)>>, Plain),
     Order(15, LastMonth, "completed", "de", <<LineWalRed(2)>>, Plain),
     Order(16, 1, "cancelled", "GB", <<LineBag(1)>>, Plain)}

\* a calculation is for a SKU, for a listing or for the shop
CalcCalls ==
    [sku : {SkuWal, SkuWalRed, SkuBag}, listing_id : {NoListing},
     date_range : {<<1, 1>>, <<LastMonth, LastMonth>>, <<1, LastMonth>>}]
        \cup [sku : {None}, listing_id : {NoListing, 10, 20},
              date_range : {<<1, 1>>, <<LastMonth, LastMonth>>, <<1, LastMonth>>}]

InitCalc ==
    /\ orders \in {S \in SUBSET (OrderPool \cup CountryPool) : Cardinality(S) <= MaxOrders}
    /\ cost_data \in CalcTables
    /\ call_args \in CalcCalls
    /\ call_result = <<>>
    /\ failing_queries = {}
    /\ inside = {}
    /\ max_concurrent = default_max_concurrent
    /\ listing_ad_stats = {}
    /\ cost_query = NoQuery
    /\ cost_answer = <<>>
    /\ phase = "done"
    /\ sku_tasks_done = {}
    /\ listing_tasks_done = {}
    /\ shop_tasks_done = <<>>
    /\ sku_metrics_store = <<>>
    /\ listing_metrics_store = <<>>
    /\ product_reports = <<>>
    /\ listing_reports = <<>>
    /\ shop_reports = <<>>

\* the rows of the period and the entity go through _calculate_metrics_from_rows
CalculateMetrics ==
    /\ call_result = <<>>
    /\ call_result' =
           <<_calculate_metrics_from_rows(
                 QueryRows(call_args.date_range, call_args.sku, call_args.listing_id),
                 call_args.date_range, call_args.sku, call_args.listing_id)>>
    /\ UNCHANGED <<orders, cost_data, listing_ad_stats, phase, sku_tasks_done,
                   listing_tasks_done, shop_tasks_done, sku_metrics_store,
                   listing_metrics_store, product_reports, listing_reports,
                   shop_reports, cost_query, cost_answer, call_args,
                   failing_queries, inside,
                   max_concurrent>>

NextCalc == CalculateMetrics

SpecCalc == InitCalc /\ [][NextCalc]_vars

(***************************************************************************)
(* The identifier normalizer on its own: one call on any raw SKU of a      *)
(* bounded length                                                          *)
(***************************************************************************)
MaxSkuLen == 4          \* tokens of a raw SKU

\* known prefixes in some letter case, whitespace, a body in two spellings
SkuTokens == {"OT-", "ot-", "DELETED-", "eu-", " ", "Wal", "wal"}

RawSkus == UNION {[1..n -> SkuTokens] : n \in 0..MaxSkuLen}

InitNorm ==
    /\ call_args \in RawSkus
    /\ call_result = <<>>
    /\ failing_queries = {}
    /\ inside = {}
    /\ max_concurrent = default_max_concurrent
    /\ cost_data = <<>>
    /\ cost_query = NoQuery
    /\ cost_answer = <<>>
    /\ orders = {}
    /\ listing_ad_stats = {}
    /\ phase = "done"
    /\ sku_tasks_done = {}
    /\ listing_tasks_done = {}
    /\ shop_tasks_done = <<>>
    /\ sku_metrics_store = <<>>
    /\ listing_metrics_store = <<>>
    /\ product_reports = <<>>
    /\ listing_reports = <<>>
    /\ shop_reports = <<>>

Normalize ==
    /\ call_result = <<>>
    /\ call_result' = <<_normalize_sku_for_comparison(call_args)>>
    /\ UNCHANGED <<orders, cost_data, listing_ad_stats, phase, sku_tasks_done,
                   listing_tasks_done, shop_tasks_done, sku_metrics_store,
                   listing_metrics_store, product_reports, listing_reports,
                   shop_reports, cost_query, cost_answer, call_args,
                   failing_queries, inside,
                   max_concurrent>>

NextNorm == Normalize

SpecNorm == InitNorm /\ [][NextNorm]_vars

(***************************************************************************)
(* The period generator on its own, on a calendar in miniature: a datetime *)
(* is a number of ticks (the seconds of the model) since the first instant *)
(* of the first year; a day has TicksPerDay ticks, a week seven days, a    *)
(* year twelve months of three or two days                                 *)
(***************************************************************************)
TicksPerDay == 2        \* instants of one day
HistoryYears == 2       \* years an order history may span
DaysPerWeek == 7        \* timedelta(weeks=1)
MonthsPerYear == 12     \* current.month % 12 + 1

DaysInMonth(month) == IF month % 2 = 1 THEN 3 ELSE 2

RECURSIVE DaysBeforeMonth(_)
DaysBeforeMonth(month) ==
    IF month = 1 THEN 0 ELSE DaysBeforeMonth(month - 1) + DaysInMonth(month - 1)

TicksPerYear == (DaysBeforeMonth(MonthsPerYear) + DaysInMonth(MonthsPerYear)) * TicksPerDay

\* datetime(year, month, 1): the first instant of the month
datetime(year, month) == year * TicksPerYear + DaysBeforeMonth(month) * TicksPerDay

\* d.year and d.month; years are counted from the first year of the calendar
year_of(d) == d \div TicksPerYear

month_of(d) ==
    CHOOSE m \in 1..MonthsPerYear :
        /\ datetime(year_of(d), m) <= d
        /\ d < datetime(year_of(d), m) + DaysInMonth(m) * TicksPerDay

\* d.weekday(): the first day of the calendar is a Wednesday
weekday(d) == ((d \div TicksPerDay) + 2) % DaysPerWeek

Max(a, b) == IF a >= b THEN a ELSE b
Min(a, b) == IF a <= b THEN a ELSE b

\* for year in range(start_date.year, end_date.year + 1)
yearly_periods(start_date, end_date) ==
    [i \in 1..(year_of(end_date) - year_of(start_date) + 1) |->
        <<Max(datetime(year_of(start_date) + i - 1, 1), start_date),
          Min(datetime(year_of(start_date) + i, 1) - 1, end_date)>>]

\* next_month = current.month % 12 + 1
next_month(current_month) == (current_month % MonthsPerYear) + 1

\* next_year = current.year + (1 if next_month == 1 else 0)
next_year(current_year, current_month) ==
    current_year + (IF next_month(current_month) = 1 THEN 1 ELSE 0)

RECURSIVE monthly_periods(_, _, _, _)
\* the while loop over current = datetime(current_year, current_month, 1)
monthly_periods(current_year, current_month, start_date, end_date) ==
    IF datetime(current_year, current_month) > end_date THEN <<>>
    ELSE << <<Max(datetime(current_year, current_month), start_date),
              Min(datetime(next_year(current_year, current_month),
                           next_month(current_month)) - 1,
                  end_date)>> >>
         \o monthly_periods(next_year(current_year, current_month),
                            next_month(current_month), start_date, end_date)

\* a week that ends on the instant the next one starts
WeekEndOnNextStart(current) == current + DaysPerWeek * TicksPerDay

\* current + timedelta(days=6, hours=23, minutes=59, seconds=59)
WeekEnd(current) == current + DaysPerWeek * TicksPerDay - 1

RECURSIVE weekly_periods(_, _, _)
\* the while loop over current, which starts on the Monday of the first week
\* at the time of day of start_date
weekly_periods(current, start_date, end_date) ==
    IF current > end_date THEN <<>>
    ELSE << <<Max(current, start_date), Min(WeekEnd(current), end_date)>> >>
         \o weekly_periods(current + DaysPerWeek * TicksPerDay, start_date, end_date)

\* generate_time_periods on the calendar
generate_time_periods_of_calendar(start_date, end_date) ==
    [yearly |-> yearly_periods(start_date, end_date),
     monthly |-> monthly_periods(year_of(start_date), month_of(start_date),
                                 start_date, end_date),
     weekly |-> weekly_periods(start_date - weekday(start_date) * TicksPerDay,
                               start_date, end_date)]

\* the key under which the batch groups the rows of a range:
\* strftime('%Y-%m-%d') of its start and of its end
period_key(dr) == <<dr[1] \div TicksPerDay, dr[2] \div TicksPerDay>>

\* the histories: earliest and latest order of the database
Histories ==
    {h \in (0..(HistoryYears * TicksPerYear - 1)) \X (0..(HistoryYears * TicksPerYear - 1)) :
        h[1] <= h[2]}

InitPeriods ==
    /\ call_args \in Histories
    /\ call_result = <<>>
    /\ failing_queries = {}
    /\ inside = {}
    /\ max_concurrent = default_max_concurrent
    /\ cost_data = <<>>
    /\ cost_query = NoQuery
    /\ cost_answer = <<>>
    /\ orders = {}
    /\ listing_ad_stats = {}
    /\ phase = "done"
    /\ sku_tasks_done = {}
    /\ listing_tasks_done = {}
    /\ shop_tasks_done = <<>>
    /\ sku_metrics_store = <<>>
    /\ listing_metrics_store = <<>>
    /\ product_reports = <<>>
    /\ listing_reports = <<>>
    /\ shop_reports = <<>>

GeneratePeriods ==
    /\ call_result = <<>>
    /\ call_result' = <<generate_time_periods_of_calendar(call_args[1], call_args[2])>>
    /\ UNCHANGED <<orders, cost_data, listing_ad_stats, phase, sku_tasks_done,
                   listing_tasks_done, shop_tasks_done, sku_metrics_store,
                   listing_metrics_store, product_reports, listing_reports,
                   shop_reports, cost_query, cost_answer, call_args,
                   failing_queries, inside,
                   max_concurrent>>

NextPeriods == GeneratePeriods

SpecPeriods == InitPeriods /\ [][NextPeriods]_vars

(***************************************************************************)
(* The tier matrix on its own                                              *)
(***************************************************************************)
MaxWeight == 25         \* largest weight queried, in 1/10 kg

\* the zones of fedex_country_code_and_zone_number.csv that occur
Zones == {3, 4, 8}

InitFedex ==
    /\ call_args \in (0..MaxWeight) \X Zones
    /\ call_result = <<>>
    /\ failing_queries = {}
    /\ inside = {}
    /\ max_concurrent = default_max_concurrent
    /\ cost_data = <<>>
    /\ cost_query = NoQuery
    /\ cost_answer = <<>>
    /\ orders = {}
    /\ listing_ad_stats = {}
    /\ phase = "done"
    /\ sku_tasks_done = {}
    /\ listing_tasks_done = {}
    /\ shop_tasks_done = <<>>
    /\ sku_metrics_store = <<>>
    /\ listing_metrics_store = <<>>
    /\ product_reports = <<>>
    /\ listing_reports = <<>>
    /\ shop_reports = <<>>

GetFedexPrice ==
    /\ call_result = <<>>
    /\ call_result' = <<get_fedex_price(call_args[1], call_args[2])>>
    /\ UNCHANGED <<orders, cost_data, listing_ad_stats, phase, sku_tasks_done,
                   listing_tasks_done, shop_tasks_done, sku_metrics_store,
                   listing_metrics_store, product_reports, listing_reports,
                   shop_reports, cost_query, cost_answer, call_args,
                   failing_queries, inside,
                   max_concurrent>>

NextFedex == GetFedexPrice

SpecFedex == InitFedex /\ [][NextFedex]_vars

(***************************************************************************)
(* The batched calculation on its own: one calculate_metrics_batch call    *)
(* over the periods of a period type, on rows that may hold a NULL         *)
(* quantity, against a database whose query may time out                   *)
(***************************************************************************)
\* the order with the quantity of its i-th line NULL
NullQuantity(o, i) == [o EXCEPT !.transactions[i].quantity = NoQuantity]

NullQuantityPool ==
    {NullQuantity(Order(17, LastMonth, "completed", "DE", <<LineWal(1), LineBag(1)>>,
                        [Plain EXCEPT !.buyer = 5]), 2),
     NullQuantity(Order(18, 1, "completed", "US", <<LineWalRed(1)>>,
                        [Plain EXCEPT !.buyer = 6]), 1)}

\* the consecutive timeouts of the query of the call
TimeoutCounts == {0, 1, max_retries}

BatchCalls ==
    [sku : {SkuWal, SkuWalRed, SkuBag}, listing_id : {NoListing},
     period_type : {"monthly"}, date_ranges : {[m \in 1..LastMonth |-> <<m, m>>]}]
        \cup [sku : {SkuWal, SkuWalRed, SkuBag}, listing_id : {NoListing},
              period_type : {"yearly"}, date_ranges : {<<<<1, LastMonth>>>>}]
        \cup [sku : {None}, listing_id : {NoListing, 10, 20},
              period_type : {"monthly"}, date_ranges : {[m \in 1..LastMonth |-> <<m, m>>]}]
        \cup [sku : {None}, listing_id : {NoListing, 10, 20},
              period_type : {"yearly"}, date_ranges : {<<<<1, LastMonth>>>>}]

InitBatch ==
    /\ orders \in {S \in SUBSET (OrderPool \cup NullQuantityPool) :
                      Cardinality(S) <= MaxOrders}
    /\ cost_data \in CalcTables
    /\ call_args \in BatchCalls
    /\ call_result = <<>>
    /\ failing_queries \in
           {TimingOut({<<call_args.period_type, call_args.date_ranges,
                         call_args.listing_id, call_args.sku>>}, timeouts) :
               timeouts \in TimeoutCounts}
    /\ inside = {}
    /\ max_concurrent = default_max_concurrent
    /\ listing_ad_stats = {}
    /\ cost_query = NoQuery
    /\ cost_answer = <<>>
    /\ phase = "done"
    /\ sku_tasks_done = {}
    /\ listing_tasks_done = {}
    /\ shop_tasks_done = <<>>
    /\ sku_metrics_store = <<>>
    /\ listing_metrics_store = <<>>
    /\ product_reports = <<>>
    /\ listing_reports = <<>>
    /\ shop_reports = <<>>

\* the call, as a handler makes it
CalculateBatch ==
    /\ call_result = <<>>
    /\ call_result' =
           <<calculate_metrics_batch_in_run(call_args.date_ranges, call_args.period_type,
                                            call_args.listing_id, call_args.sku)>>
    /\ UNCHANGED <<orders, cost_data, listing_ad_stats, phase, sku_tasks_done,
                   listing_tasks_done, shop_tasks_done, sku_metrics_store,
                   listing_metrics_store, product_reports, listing_reports,
                   shop_reports, cost_query, cost_answer, call_args,
                   failing_queries, inside,
                   max_concurrent>>

NextBatch == CalculateBatch

SpecBatch == InitBatch /\ [][NextBatch]_vars

(***************************************************************************)
(* The run task by task: every handler waits for the semaphore, works      *)
(* inside "async with semaphore", and leaves it on return or on the        *)
(* exception its try/except catches                                        *)
(***************************************************************************)
MaxConcurrent == 2      \* largest max_concurrent given to the constructor

SkuTask(sku) == <<"sku", sku>>
ListingTask(listing_id) == <<"listing", listing_id>>
ShopTask(period_type) == <<"shop", period_type>>

never_locked == FALSE

\* Semaphore.locked(): no permit is left
locked == Cardinality(inside) >= max_concurrent

chunk_size == max_concurrent * 3

\* chunk = tasks[i:i + chunk_size] of the gather that has not returned yet
CurrentChunk(tasks, done) ==
    LET pending == {i \in DOMAIN tasks : tasks[i] \notin done}
    IN  IF pending = {} THEN {}
        ELSE LET first == CHOOSE i \in pending : \A j \in pending : i <= j
                 start == ((first - 1) \div chunk_size) * chunk_size
             IN  {tasks[i] : i \in DOMAIN tasks \cap ((start + 1)..(start + chunk_size))}

InitTasks ==
    /\ orders \in {S \in SUBSET OrderPool : Cardinality(S) <= MaxOrders}
    /\ cost_data = <<Full(SkuWal, 300), Full(SkuWalRed, 400), Full(SkuBag, 600)>>
    /\ max_concurrent \in 1..MaxConcurrent
    /\ failing_queries = {}
    /\ inside = {}
    /\ listing_ad_stats = {}
    /\ phase = "start"
    /\ sku_tasks_done = {}
    /\ listing_tasks_done = {}
    /\ shop_tasks_done = <<>>
    /\ sku_metrics_store = <<>>
    /\ listing_metrics_store = <<>>
    /\ product_reports = <<>>
    /\ listing_reports = <<>>
    /\ shop_reports = <<>>
    /\ cost_query = NoQuery
    /\ cost_answer = <<>>
    /\ call_args = <<>>
    /\ call_result = <<>>

\* a SKU task of the chunk passes "async with semaphore"
EnterSku(sku) ==
    /\ phase = "products"
    /\ sku \in CurrentChunk(get_all_skus, sku_tasks_done)
    /\ sku \notin sku_tasks_done
    /\ SkuTask(sku) \notin inside
    /\ ~locked
    /\ inside' = inside \cup {SkuTask(sku)}
    /\ UNCHANGED <<orders, cost_data, listing_ad_stats, phase, sku_tasks_done,
                   listing_tasks_done, shop_tasks_done, sku_metrics_store,
                   listing_metrics_store, product_reports, listing_reports,
                   shop_reports, cost_query, cost_answer, call_args, call_result,
                   failing_queries, max_concurrent>>

\* _process_sku_reports_with_cache runs to its end and leaves the semaphore
CompleteSku(sku) ==
    /\ SkuTask(sku) \in inside
    /\ \E docs \in {SkuDocs(sku)} :
           /\ sku_metrics_store' = (sku :> docs) @@ sku_metrics_store
           /\ product_reports' = Saved(sku, docs) @@ product_reports
    /\ sku_tasks_done' = sku_tasks_done \cup {sku}
    /\ inside' = inside \ {SkuTask(sku)}
    /\ UNCHANGED <<orders, cost_data, listing_ad_stats, phase, listing_tasks_done,
                   shop_tasks_done, listing_metrics_store, listing_reports,
                   shop_reports, cost_query, cost_answer, call_args, call_result,
                   failing_queries, max_concurrent>>

\* its first save_product_report raises: cache_store[sku] stays {}, the except
\* branch logs the error and the task leaves the semaphore
FailSku(sku) ==
    /\ SkuTask(sku) \in inside
    /\ SkuDocs(sku) # <<>>
    /\ sku_metrics_store' = (sku :> <<>>) @@ sku_metrics_store
    /\ sku_tasks_done' = sku_tasks_done \cup {sku}
    /\ inside' = inside \ {SkuTask(sku)}
    /\ UNCHANGED <<orders, cost_data, listing_ad_stats, phase, listing_tasks_done,
                   shop_tasks_done, listing_metrics_store, product_reports,
                   listing_reports, shop_reports, cost_query, cost_answer,
                   call_args, call_result, failing_queries, max_concurrent>>

\* a listing task of the chunk passes "async with semaphore"
EnterListing(listing_id) ==
    /\ phase = "listings"
    /\ listing_id \in CurrentChunk(get_all_listings, listing_tasks_done)
    /\ listing_id \notin listing_tasks_done
    /\ ListingTask(listing_id) \notin inside
    /\ ~locked
    /\ inside' = inside \cup {ListingTask(listing_id)}
    /\ UNCHANGED <<orders, cost_data, listing_ad_stats, phase, sku_tasks_done,
                   listing_tasks_done, shop_tasks_done, sku_metrics_store,
                   listing_metrics_store, product_reports, listing_reports,
                   shop_reports, cost_query, cost_answer, call_args, call_result,
                   failing_queries, max_concurrent>>

\* _process_listing_reports_aggregated runs to its end and leaves the semaphore
CompleteListing(listing_id) ==
    /\ ListingTask(listing_id) \in inside
    /\ \E docs \in {ListingDocs(listing_id)} :
           /\ listing_metrics_store' = (listing_id :> docs) @@ listing_metrics_store
           /\ listing_reports' = Saved(listing_id, docs) @@ listing_reports
    /\ listing_tasks_done' = listing_tasks_done \cup {listing_id}
    /\ sku_metrics_store' = SkuStoreAfter(ListingChildSkus(listing_id), sku_metrics_store)
    /\ inside' = inside \ {ListingTask(listing_id)}
    /\ UNCHANGED <<orders, cost_data, listing_ad_stats, phase, sku_tasks_done,
                   shop_tasks_done, product_reports, shop_reports, cost_query,
                   cost_answer, call_args, call_result, failing_queries,
                   max_concurrent>>

\* its first save_listing_report raises
FailListing(listing_id) ==
    /\ ListingTask(listing_id) \in inside
    /\ ListingDocs(listing_id) # <<>>
    /\ listing_metrics_store' = (listing_id :> <<>>) @@ listing_metrics_store
    /\ listing_tasks_done' = listing_tasks_done \cup {listing_id}
    /\ sku_metrics_store' = SkuStoreAfter(ListingChildSkus(listing_id), sku_metrics_store)
    /\ inside' = inside \ {ListingTask(listing_id)}
    /\ UNCHANGED <<orders, cost_data, listing_ad_stats, phase, sku_tasks_done,
                   shop_tasks_done, product_reports, listing_reports, shop_reports,
                   cost_query, cost_answer, call_args, call_result, failing_queries,
                   max_concurrent>>

\* the shop task that is awaited passes "async with semaphore"
EnterShop ==
    /\ phase = "shop"
    /\ Len(shop_tasks_done) < Len(period_types)
    /\ ShopTask(period_types[Len(shop_tasks_done) + 1]) \notin inside
    /\ ~locked
    /\ inside' = inside \cup {ShopTask(period_types[Len(shop_tasks_done) + 1])}
    /\ UNCHANGED <<orders, cost_data, listing_ad_stats, phase, sku_tasks_done,
                   listing_tasks_done, shop_tasks_done, sku_metrics_store,
                   listing_metrics_store, product_reports, listing_reports,
                   shop_reports, cost_query, cost_answer, call_args, call_result,
                   failing_queries, max_concurrent>>

\* _process_shop_reports_aggregated runs to its end and leaves the semaphore
CompleteShop ==
    /\ phase = "shop"
    /\ Len(shop_tasks_done) < Len(period_types)
    /\ LET period_type == period_types[Len(shop_tasks_done) + 1]
       IN  /\ ShopTask(period_type) \in inside
           /\ shop_reports' = ShopDocs(period_type) @@ shop_reports
           /\ shop_tasks_done' = Append(shop_tasks_done, period_type)
           /\ listing_metrics_store' =
                  ListingStoreAfter(StoreKeys(listing_metrics_store), period_type,
                                    listing_metrics_store)
           /\ inside' = inside \ {ShopTask(period_type)}
    /\ UNCHANGED <<orders, cost_data, listing_ad_stats, phase, sku_tasks_done,
                   listing_tasks_done, sku_metrics_store, product_reports,
                   listing_reports, cost_query, cost_answer, call_args, call_result,
                   failing_queries, max_concurrent>>

\* its first save_shop_report raises
FailShop ==
    /\ phase = "shop"
    /\ Len(shop_tasks_done) < Len(period_types)
    /\ LET period_type == period_types[Len(shop_tasks_done) + 1]
       IN  /\ ShopTask(period_type) \in inside
           /\ ShopDocs(period_type) # <<>>
           /\ shop_tasks_done' = Append(shop_tasks_done, period_type)
           /\ listing_metrics_store' =
                  ListingStoreAfter(StoreKeys(listing_metrics_store), period_type,
                                    listing_metrics_store)
           /\ inside' = inside \ {ShopTask(period_type)}
    /\ UNCHANGED <<orders, cost_data, listing_ad_stats, phase, sku_tasks_done,
                   listing_tasks_done, sku_metrics_store, product_reports,
                   listing_reports, shop_reports, cost_query, cost_answer,
                   call_args, call_result, failing_queries, max_concurrent>>

NextTasks ==
    \/ StartRun
    \/ \E sku \in Range(get_all_skus) : EnterSku(sku)
    \/ \E sku \in Range(get_all_skus) : CompleteSku(sku)
    \/ \E sku \in Range(get_all_skus) : FailSku(sku)
    \/ StartListings
    \/ \E listing_id \in Range(get_all_listings) : EnterListing(listing_id)
    \/ \E listing_id \in Range(get_all_listings) : CompleteListing(listing_id)
    \/ \E listing_id \in Range(get_all_listings) : FailListing(listing_id)
    \/ StartShop
    \/ EnterShop
    \/ CompleteShop
    \/ FailShop
    \/ Finish

SpecTasks == InitTasks /\ [][NextTasks]_vars

(***************************************************************************)
(* Properties                                                              *)
(***************************************************************************)
Abs(x) == IF x < 0 THEN -x ELSE x

\* the children of a listing whose document for the period key is in the store
StoredChildren(listing_id, k) ==
    {c \in Range(ListingChildSkus(listing_id)) : Lookup(sku_metrics_store, c, k) # <<>>}

\* the listings whose document for the period key is in the store
StoredListings(k) ==
    {lid \in DOMAIN listing_metrics_store : Lookup(listing_metrics_store, lid, k) # <<>>}

\* the listing documents that _aggregate_from_skus produced from two or more
\* SKU documents, and the shop documents that _aggregate_from_listings produced
\* from two or more listing documents
ListingAggregates ==
    UNION {{listing_metrics_store[lid][k] :
                k \in {x \in DOMAIN listing_metrics_store[lid] :
                          Cardinality(StoredChildren(lid, x)) >= 2}} :
            lid \in DOMAIN listing_metrics_store}

ShopAggregates ==
    {shop_reports[k] :
        k \in {x \in DOMAIN shop_reports :
                  /\ "listings_skipped_no_cost" \in DOMAIN shop_reports[x]
                  /\ Cardinality({lid \in StoredListings(x) :
                         listing_metrics_store[lid][x].has_complete_cost_data}) >= 2}}

\* every ratio of the document is the quotient of the document's own sums
RatiosFromOwnSums(d) ==
    /\ d.gross_revenue > 0 =>
          /\ FracIs(d.gross_margin, d.gross_profit, d.gross_revenue)
          /\ FracIs(d.net_margin, d.net_profit, d.gross_revenue)
          /\ FracIs(d.ad_spend_rate, d.total_ad_spend, d.gross_revenue)
    /\ d.total_orders > 0 =>
          /\ FracIs(d.average_order_value, d.gross_revenue, d.total_orders)
          /\ FracIs(d.items_per_order, d.total_items, d.total_orders)
          /\ FracIs(d.shipping_rate, d.shipped_orders, d.total_orders)
          /\ FracIs(d.gift_rate, d.gift_orders, d.total_orders)
          /\ FracIs(d.cancellation_rate, d.cancelled_orders,
                    d.total_orders + d.cancelled_orders)
          /\ FracIs(d.completion_rate, d.total_orders,
                    d.total_orders + d.cancelled_orders)
    /\ d.total_items > 0 => FracIs(d.avg_cost_per_item, d.total_cost, d.total_items)
    /\ d.unique_customers > 0 =>
          FracIs(d.customer_retention_rate, d.repeat_customers, d.unique_customers)
    /\ d.period_days > 0 =>
          /\ FracIs(d.orders_per_day, d.total_orders, d.period_days)
          /\ FracIs(d.revenue_per_day, d.gross_revenue, d.period_days)
    /\ d.total_ad_spend > 0 => FracIs(d.roas, d.gross_revenue, d.total_ad_spend)

\* C1: in every document aggregated from two or more child documents, every
\* derived ratio or average field equals its numerator divided by its
\* denominator, both taken from the sums of that document.
C1_RatiosRecomputed ==
    \A d \in ListingAggregates \cup ShopAggregates : RatiosFromOwnSums(d)

\* equality of two fractions by value
FracEq(f, g) == f.n * g.d = g.n * f.d

ratio_fields ==
    {"etsy_fee_rate", "take_home_rate", "discount_rate", "avg_cost_per_item",
     "cost_per_order", "gross_margin", "net_margin", "return_on_revenue",
     "markup_ratio", "ad_spend_rate", "roas", "average_order_value",
     "items_per_order", "revenue_per_item", "profit_per_item",
     "customer_retention_rate", "revenue_per_customer", "orders_per_customer",
     "profit_per_customer", "shipping_rate", "gift_rate", "orders_per_day",
     "revenue_per_day", "refund_rate_by_order", "refund_rate_by_value",
     "order_refund_rate", "cancellation_rate", "completion_rate",
     "cost_coverage_percent"}

\* the two documents agree on every field
SameDocument(a, b) ==
    /\ DOMAIN a = DOMAIN b
    /\ \A f \in DOMAIN a :
          IF f \in ratio_fields THEN FracEq(a[f], b[f]) ELSE a[f] = b[f]

\* the SKU documents and the listing documents stored for a period key
DocsAt(k) ==
    {sku_metrics_store[c][k] : c \in {x \in DOMAIN sku_metrics_store :
                                         k \in DOMAIN sku_metrics_store[x]}}
      \cup {listing_metrics_store[lid][k] : lid \in StoredListings(k)}

\* C2: aggregation is commutative: for all documents a and b of one period
\* _sum_metrics(a, b) and _sum_metrics(b, a) agree on every field, and the
\* listing rollup is the same document for the reversed child list.
C2_Commutative ==
    /\ \A k \in AllKeys : \A a, b \in DocsAt(k) :
          SameDocument(_sum_metrics(a, b), _sum_metrics(b, a))
    /\ \A lid \in DOMAIN listing_metrics_store : \A k \in AllKeys :
          LET child_skus == ListingChildSkus(lid)
              reversed == [i \in DOMAIN child_skus |->
                              child_skus[Len(child_skus) + 1 - i]]
              forth == _aggregate_from_skus(child_skus, k, sku_metrics_store, k[2])
              back == _aggregate_from_skus(reversed, k, sku_metrics_store, k[2])
          IN  IF forth = <<>> THEN back = <<>>
              ELSE back # <<>> /\ SameDocument(forth[1], back[1])

\* the fields whose value in a rollup is the sum over the children
AdditiveFamily ==
    {"gross_revenue", "total_revenue", "product_revenue", "total_shipping_charged",
     "total_tax_collected", "total_vat_collected", "total_gift_wrap_revenue",
     "total_discounts_given", "etsy_transaction_fees", "etsy_processing_fees",
     "total_etsy_fees", "net_revenue", "net_revenue_after_refunds",
     "actual_shipping_cost", "shipping_profit", "duty_amount", "tax_amount",
     "fedex_processing_fee", "total_cost", "total_cost_with_shipping",
     "contribution_margin", "gross_profit", "net_profit", "total_ad_spend",
     "total_orders", "total_items", "total_quantity_sold", "shipped_orders",
     "gift_orders", "total_refund_amount", "total_refund_count",
     "orders_with_refunds", "etsy_fees_retained_on_refunds", "cancelled_orders",
     "unique_customers", "repeat_customers",
     "items_with_direct_cost", "items_with_fallback_cost", "items_missing_cost"}

\* C3: aggregation is associative on the additive fields: for all documents
\* a, b, c of one period, every additive field of _sum_metrics(_sum_metrics(a, b), c)
\* equals that of _sum_metrics(a, _sum_metrics(b, c)) and the flat sum of the
\* field over a, b and c.
C3_Associative ==
    \A k \in AllKeys : \A a, b, c \in DocsAt(k) :
        LET left == _sum_metrics(_sum_metrics(a, b), c)
            right == _sum_metrics(a, _sum_metrics(b, c))
        IN  \A f \in AdditiveFamily :
               /\ left[f] = right[f]
               /\ left[f] = a[f] + b[f] + c[f]

\* three different documents with orders, costs and refunds of their own are
\* stored for one period
C3_Witness ==
    \E k \in AllKeys : \E a, b, c \in DocsAt(k) :
        /\ a.total_cost < b.total_cost /\ b.total_cost < c.total_cost
        /\ a.items_missing_cost + b.items_missing_cost + c.items_missing_cost > 0
        /\ a.total_refund_amount + b.total_refund_amount + c.total_refund_amount > 0

\* the listings with a document for the period key whose missing-cost
\* quantity is positive
IncompleteListings(k) ==
    {lid \in StoredListings(k) : listing_metrics_store[lid][k].items_missing_cost > 0}

\* C4: in a shop rollup built by _aggregate_from_listings, a listing whose
\* document for the period has missing-cost quantity > 0 adds nothing to any
\* additive field, and listings_skipped_no_cost is the number of such listings.
C4_ShopExcludesIncomplete ==
    \A k \in DOMAIN shop_reports :
        "listings_skipped_no_cost" \in DOMAIN shop_reports[k] =>
            /\ shop_reports[k].listings_skipped_no_cost = Cardinality(IncompleteListings(k))
            /\ \A f \in AdditiveFamily :
                  shop_reports[k][f] =
                      SumOver(StoredListings(k) \ IncompleteListings(k),
                              LAMBDA lid : listing_metrics_store[lid][k][f])

\* a shop rollup was saved that left out a listing with missing costs
C4_Witness ==
    \E k \in DOMAIN shop_reports :
        /\ "listings_skipped_no_cost" \in DOMAIN shop_reports[k]
        /\ shop_reports[k].listings_skipped_no_cost >= 1
        /\ \E lid \in IncompleteListings(k) :
              listing_metrics_store[lid][k].gross_revenue > 0

\* C5: after a full run no shop document handed to save_shop_report, be it a
\* rollup of listings or the direct calculation, has missing-cost quantity > 0.
C5_NoMissingCostInShop ==
    phase = "done" => \A k \in DOMAIN shop_reports : shop_reports[k].items_missing_cost = 0

\* the document calculate_metrics_batch computes for one SKU and one period
OwnMetrics(sku, dr) == calculate_metrics_batch(<<dr>>, NoListing, sku)[dr]

\* C6: a listing rollup includes every child SKU with completed orders in the
\* period, whatever part of its quantity has missing cost, and its
\* cost_coverage_percent is 100 x known-cost quantity / sold quantity over these
\* children (to the two decimals stored).
C6_ListingIncludesEveryChild ==
    \A lid \in DOMAIN listing_metrics_store : \A k \in DOMAIN listing_metrics_store[lid] :
        StoredChildren(lid, k) # {} =>
            LET d == listing_metrics_store[lid][k]
                own == {<<c, OwnMetrics(c, k[2])>> : c \in Range(ListingChildSkus(lid))}
                sold == SumOver(own, LAMBDA p : p[2].total_quantity_sold)
                known == SumOver(own, LAMBDA p : p[2].total_quantity_sold
                                                    - p[2].items_missing_cost)
                coverage == d.cost_coverage_percent
            IN  /\ d.total_orders = SumOver(own, LAMBDA p : p[2].total_orders)
                /\ d.total_quantity_sold = sold
                /\ 200 * Abs(coverage.n * sold - 100 * known * coverage.d)
                       <= coverage.d * sold

\* the orders of one SKU in a period
CancelledOf(sku, dr) ==
    Cardinality({o \in QueryRows(dr, sku, NoListing) : o.status \in cancelled_statuses})
CompletedOf(sku, dr) == Cardinality(CompletedOrders(QueryRows(dr, sku, NoListing)))

money_fields ==
    {"gross_revenue", "total_etsy_fees", "net_revenue", "total_cost",
     "total_cost_with_shipping", "gross_profit", "net_profit"}

\* C7: a child with no completed order in the period adds its cancelled orders,
\* and nothing else, to the rollup of its parent.
C7_ZeroOrderChildAddsCancellations ==
    \A lid \in DOMAIN listing_metrics_store : \A k \in DOMAIN listing_metrics_store[lid] :
        LET d == listing_metrics_store[lid][k]
            stored == StoredChildren(lid, k)
            others == Range(ListingChildSkus(lid)) \ stored
        IN  (stored # {} /\ \A c \in others : CompletedOf(c, k[2]) = 0) =>
                /\ d.cancelled_orders =
                       SumOver(stored, LAMBDA c : sku_metrics_store[c][k].cancelled_orders)
                         + SumOver(others, LAMBDA c : CancelledOf(c, k[2]))
                /\ \A f \in money_fields :
                       d[f] = SumOver(stored, LAMBDA c : sku_metrics_store[c][k][f])

\* every document of the run, with the number of directly calculated documents
\* it can be the sum of: <<metrics, count>>
DocumentsOfRun ==
    UNION {{<<sku_metrics_store[c][k], 1>> : k \in DOMAIN sku_metrics_store[c]} :
              c \in DOMAIN sku_metrics_store}
      \cup UNION {{<<product_reports[r], 1>>} : r \in DOMAIN product_reports}
      \cup UNION {{<<listing_metrics_store[lid][k], Len(ListingChildSkus(lid))>> :
                      k \in DOMAIN listing_metrics_store[lid]} :
                   lid \in DOMAIN listing_metrics_store}
      \cup UNION {{<<listing_reports[r], Len(ListingChildSkus(r[1]))>>} :
                   r \in DOMAIN listing_reports}
      \cup {<<shop_reports[k], Len(SkuKeys)>> : k \in DOMAIN shop_reports}
      \cup {<<_empty_metrics(k[2]), 0>> : k \in AllKeys}

GrossProfitGap(d) ==
    Abs(d.gross_profit - (d.net_revenue - d.total_cost_with_shipping))

\* C8: every document - calculated from orders, empty, or aggregated - has
\* gross_profit = net_revenue - total_cost_with_shipping up to the rounding of
\* the stored values: within one cent for each calculated document summed.
C8_GrossProfitIdentity ==
    \A p \in DocumentsOfRun : GrossProfitGap(p[1]) <= p[2]

\* a shop rollup of listings with goods and shipping costs was saved, and in
\* some saved document the rounding shows
C8_Witness ==
    /\ \E k \in DOMAIN shop_reports :
          /\ "listings_skipped_no_cost" \in DOMAIN shop_reports[k]
          /\ shop_reports[k].total_cost > 0
          /\ shop_reports[k].actual_shipping_cost > 0
          /\ shop_reports[k].total_cost_with_shipping > shop_reports[k].total_cost
    /\ \E p \in DocumentsOfRun : GrossProfitGap(p[1]) = 1

NetProfitGap(d) ==
    Abs(d.net_profit - (d.gross_profit - d.total_refund_amount
                          - d.etsy_fees_retained_on_refunds - d.total_ad_spend))

C10_DirectCostPreferred ==
    cost_answer # <<>> =>
        LET c == get_cost_for_sku_date(cost_query.sku, cost_query.year, cost_query.month)
        IN  c > 0 => cost_answer = <<c, "direct">>

\* a direct cost was returned although a sibling of the listing has a cost
\* for the period, and a different one
C10_Witness ==
    /\ cost_answer # <<>>
    /\ cost_answer[2] = "direct"
    /\ cost_query.listing_id # NoListing
    /\ LET sibling == SiblingCost(cost_query.sku, cost_query.year, cost_query.month,
                                  cost_query.listing_id)
       IN  sibling[1] > 0 /\ sibling[1] # cost_answer[1]

\* the positive costs the cost table holds for (normalize(sku), year, month)
TableCosts(sku, year, month) ==
    {r.cells[c] : <<r, c>> \in
        {<<r, c>> \in Range(cost_data) \X CostColumns :
            /\ _normalize_sku_for_comparison(r.SKU) = _normalize_sku_for_comparison(sku)
            /\ c[2] = year /\ c[3] = month
            /\ r.cells[c] > 0}}

\* the siblings of the queried SKU that have a positive cost in the table for
\* the queried period, by their position in the list of siblings
SiblingsWithCost(q) ==
    {i \in DOMAIN SiblingSkus(q.sku, q.listing_id) :
        TableCosts(SiblingSkus(q.sku, q.listing_id)[i], q.year, q.month) # {}}

FirstOf(S) == CHOOSE i \in S : \A j \in S : i <= j

\* C11: when the cost table has no positive cost for (normalize(sku), year,
\* month), the listing is known and some sibling has a positive cost for the
\* same (year, month), get_cost_with_fallback returns the cost of the first
\* such sibling with source sibling_same_period.
C11_SiblingSamePeriod ==
    (/\ cost_answer # <<>>
     /\ cost_query.listing_id # NoListing
     /\ TableCosts(cost_query.sku, cost_query.year, cost_query.month) = {}
     /\ SiblingsWithCost(cost_query) # {})
    => /\ cost_answer[2] = "sibling_same_period"
       /\ cost_answer[1] \in
              TableCosts(SiblingSkus(cost_query.sku, cost_query.listing_id)
                             [FirstOf(SiblingsWithCost(cost_query))],
                         cost_query.year, cost_query.month)

\* the siblings the resolver may ask: none when the listing is not known
KnownSiblings(q) ==
    IF q.listing_id = NoListing THEN {} ELSE Range(SiblingSkus(q.sku, q.listing_id))

\* the positive costs the table holds for some sibling, i months before the
\* queried period (i = 0: the queried period)
SiblingTableCosts(q, i) ==
    UNION {TableCosts(s, MonthsBack(q.year, q.month, i)[1],
                      MonthsBack(q.year, q.month, i)[2]) : s \in KnownSiblings(q)}

\* the months back (1..24) in which some sibling has a positive cost
MonthsWithSiblingCost(q) ==
    {i \in 1..HistoryMonths : SiblingTableCosts(q, i) # {}}

\* C20: when neither the queried SKU nor any sibling has a positive cost at
\* the queried (year, month), get_cost_with_fallback returns, with source
\* sibling_historical, a cost of the most recent of the 24 earlier months in
\* which some sibling has a positive cost, and (0, missing) when there is no
\* such month.
C20_SiblingHistorical ==
    (/\ cost_answer # <<>>
     /\ TableCosts(cost_query.sku, cost_query.year, cost_query.month) = {}
     /\ SiblingTableCosts(cost_query, 0) = {})
    => IF MonthsWithSiblingCost(cost_query) # {}
       THEN /\ cost_answer[2] = "sibling_historical"
            /\ cost_answer[1] \in
                   SiblingTableCosts(cost_query, FirstOf(MonthsWithSiblingCost(cost_query)))
       ELSE cost_answer = <<0, "missing">>

\* the first k tokens of the SKU are known prefixes, in some letter case
PrefixesUpTo(sku, k) ==
    \A i \in 1..k : str_upper(sku[i]) \in Range(prefixes_to_remove)

\* C12: for every raw SKU s and every sequence of known prefixes, in any
\* letter case, prepended to it, normalize(prefixes + s) = normalize(s).
C12_PrefixInsensitive ==
    call_result # <<>> =>
        \A k \in 0..Len(call_args) :
            PrefixesUpTo(call_args, k) =>
                call_result[1]
                    = _normalize_sku_for_comparison(SubSeq(call_args, k + 1, Len(call_args)))

\* C13: normalize(normalize(x)) = normalize(x) for every input string x,
\* whitespace at the ends or inside and repeated or mixed-case prefixes included.
C13_Idempotent ==
    call_result # <<>> =>
        _normalize_sku_for_comparison(call_result[1]) = call_result[1]

\* the input of the calculation: its rows, the completed ones, their line items
CalcRows == QueryRows(call_args.date_range, call_args.sku, call_args.listing_id)

CalcCompleted == {o \in CalcRows : o.status \notin {"cancelled", "canceled"}}

CalcLines ==
    UNION {{[country |-> o.country, sku |-> o.transactions[i].sku,
             quantity |-> o.transactions[i].quantity,
             price |-> o.transactions[i].price, order_id |-> o.order_id, line |-> i] :
               i \in DOMAIN o.transactions} : o \in CalcCompleted}

ShippedToUS(country) ==
    country \in {"US", "us", "Us", "USA", "usa", "Usa",
                 "UNITED STATES", "united states", "United States"}

\* the duty (or tax) the claim gives a US line item, in mills
ExpectedLevy(rate, amount, l) ==
    IF rate > 0 THEN l.price * rate * l.quantity ELSE amount * l.quantity * Mills

\* C14: for line items shipped to the US (US, USA or United States in any
\* letter case) the shipping cost is fedex_charge x quantity, the duty is
\* unit price x duty_rate x quantity when a duty rate > 0 is published and
\* duty_amount x quantity only otherwise, and likewise for the import tax.
C14_UsShipping ==
    (/\ call_result # <<>>
     /\ CalcCompleted # {}
     /\ \A o \in CalcCompleted : ShippedToUS(o.country))
    => /\ call_result[1].actual_shipping_cost
            = Round2(SumOver(CalcLines, LAMBDA l :
                  get_us_shipping_costs(l.sku).fedex_charge * l.quantity * Mills))
       /\ call_result[1].duty_amount
            = Round2(SumOver(CalcLines, LAMBDA l :
                  ExpectedLevy(get_us_shipping_costs(l.sku).duty_rate,
                               get_us_shipping_costs(l.sku).duty_amount, l)))
       /\ call_result[1].tax_amount
            = Round2(SumOver(CalcLines, LAMBDA l :
                  ExpectedLevy(get_us_shipping_costs(l.sku).tax_rate,
                               get_us_shipping_costs(l.sku).tax_amount, l)))

\* a calculation over US orders only, one of them spelling the country in
\* lower case, with a line item of several units that has both a duty rate
\* and a duty amount and a line item that has a duty amount only
C14_Witness ==
    /\ call_result # <<>>
    /\ CalcCompleted # {}
    /\ \A o \in CalcCompleted : ShippedToUS(o.country)
    /\ \E o \in CalcCompleted : o.country \notin {"US", "USA", "UNITED STATES"}
    /\ \E l \in CalcLines :
          /\ l.quantity > 1
          /\ get_us_shipping_costs(l.sku).duty_rate > 0
          /\ get_us_shipping_costs(l.sku).duty_amount > 0
          /\ l.price * get_us_shipping_costs(l.sku).duty_rate
                # get_us_shipping_costs(l.sku).duty_amount * Mills
    /\ \E l \in CalcLines :
          /\ get_us_shipping_costs(l.sku).duty_rate = 0
          /\ get_us_shipping_costs(l.sku).duty_amount > 0
    /\ call_result[1].duty_amount > 0
    /\ call_result[1].actual_shipping_cost > 0

\* the zone of the destination: the default zone when the country is unknown
ZoneOf(country) ==
    CASE country \in {"DE", "de"} -> 3
      [] country \in {"GB", "gb"} -> 4
      [] OTHER -> 8

\* C15: for line items shipped to a destination other than the US the
\* shipping cost is the tier price of the total weight of the line (weight
\* per unit x quantity) in the zone of the country, the default zone when
\* the country is unknown, once per line item and not once per unit.
C15_ZoneShipping ==
    (/\ call_result # <<>>
     /\ CalcCompleted # {}
     /\ \A o \in CalcCompleted : ~ShippedToUS(o.country))
    => call_result[1].actual_shipping_cost
           = Round2(SumOver(CalcLines, LAMBDA l :
                 get_fedex_price(get_desi_for_sku(l.sku) * l.quantity,
                                 ZoneOf(l.country)) * Mills))

\* a calculation over orders to other countries only, with a line item of
\* several units whose total weight is in another tier than one unit, and
\* with a country that has no zone
C15_Witness ==
    /\ call_result # <<>>
    /\ CalcCompleted # {}
    /\ \A o \in CalcCompleted : ~ShippedToUS(o.country)
    /\ \E l \in CalcLines :
          /\ l.quantity > 1
          /\ get_fedex_price(get_desi_for_sku(l.sku) * l.quantity, ZoneOf(l.country))
                # get_fedex_price(get_desi_for_sku(l.sku), ZoneOf(l.country)) * l.quantity
    /\ \E l \in CalcLines : l.country \notin {"DE", "de", "GB", "gb"}
    /\ call_result[1].actual_shipping_cost > 0

\* the fees the claim gives the completed orders, in mills
ExpectedFees ==
    (SumOver(CalcCompleted, LAMBDA o : o.grand_total - o.total_tax_cost - o.total_vat_cost)
        * (etsy_transaction_fee_rate + etsy_processing_fee_rate))
    + Cardinality(CalcCompleted) * etsy_processing_fee_fixed * Mills

\* C16: for a non-empty set of completed orders, with taxable = gross_revenue
\* - tax - vat, total_etsy_fees = taxable x 0.065 + taxable x 0.03 + number
\* of completed orders x 0.25 and net_revenue = gross_revenue - total_etsy_fees
\* - tax - vat.
C16_EtsyFees ==
    (call_result # <<>> /\ CalcCompleted # {})
    => /\ call_result[1].total_etsy_fees = Round2(ExpectedFees)
       /\ call_result[1].net_revenue
            = Round2(SumOver(CalcCompleted, LAMBDA o :
                         o.grand_total - o.total_tax_cost - o.total_vat_cost) * Mills
                     - ExpectedFees)

\* a calculation over several completed orders that carry tax and VAT
C16_Witness ==
    /\ call_result # <<>>
    /\ Cardinality(CalcCompleted) > 1
    /\ \E o \in CalcCompleted : o.total_tax_cost > 0
    /\ \E o \in CalcCompleted : o.total_vat_cost > 0
    /\ call_result[1].total_etsy_fees > 0

\* C17: when the input has no completed orders (no rows, or cancelled orders
\* only) the calculator returns a document whose revenue, fee, cost and
\* profit fields are all zero and whose cancelled_orders is the number of
\* cancelled orders of the input.
C17_EmptyInput ==
    (call_result # <<>> /\ CalcCompleted = {})
    => /\ \A f \in {"gross_revenue", "total_revenue", "product_revenue", "net_revenue",
                     "etsy_transaction_fees", "etsy_processing_fees", "total_etsy_fees",
                     "total_cost", "total_cost_with_shipping", "actual_shipping_cost",
                     "gross_profit", "net_profit", "contribution_margin"} :
             call_result[1][f] = 0
       /\ call_result[1].cancelled_orders = Cardinality(CalcRows)

\* the documents the run has written to the report store
WrittenDocuments ==
    {product_reports[r] : r \in DOMAIN product_reports}
        \cup {listing_reports[r] : r \in DOMAIN listing_reports}
        \cup {shop_reports[r] : r \in DOMAIN shop_reports}

\* the completed orders of the entity in the period
CompletedIn(dr, sku, listing_id) == CompletedOrders(QueryRows(dr, sku, listing_id))

Partition(ranges, start, end) ==
    /\ \A i \in DOMAIN ranges :
          ranges[i][1] <= ranges[i][2] /\ start <= ranges[i][1] /\ ranges[i][2] <= end
    /\ \A i, j \in DOMAIN ranges :
          i # j => ranges[i][2] < ranges[j][1] \/ ranges[j][2] < ranges[i][1]
    /\ \A t \in start..end :
          Cardinality({i \in DOMAIN ranges : ranges[i][1] <= t /\ t <= ranges[i][2]}) = 1
    /\ \A i, j \in DOMAIN ranges : i # j => period_key(ranges[i]) # period_key(ranges[j])

\* C19: for every history [start, end] with start <= end, the weekly, the
\* monthly and the yearly ranges of generate_time_periods each have start <=
\* end, lie inside [start, end], do not overlap, and every instant of
\* [start, end] lies in exactly one range of each type.
C19_PeriodsPartition ==
    call_result # <<>> =>
        /\ Partition(call_result[1].yearly, call_args[1], call_args[2])
        /\ Partition(call_result[1].monthly, call_args[1], call_args[2])
        /\ Partition(call_result[1].weekly, call_args[1], call_args[2])

\* a history over two years that starts in the middle of a day, of a week
\* and of a month and has several ranges of each type
C19_Witness ==
    /\ call_result # <<>>
    /\ Len(call_result[1].yearly) >= 2
    /\ Len(call_result[1].monthly) >= 3
    /\ Len(call_result[1].weekly) >= 3
    /\ call_args[1] % TicksPerDay # 0
    /\ weekday(call_args[1]) # 0
    /\ call_args[1] # datetime(year_of(call_args[1]), month_of(call_args[1]))
    /\ call_result[1].weekly[1][1] # call_result[1].monthly[1][2]

\* the published tiers
PublishedTiers == {weight_tiers[i] : i \in DOMAIN weight_tiers}

\* the smallest published tier that holds the weight, the largest tier when
\* none does
TierFor(w) ==
    IF \E t \in PublishedTiers : w <= t
    THEN CHOOSE t \in PublishedTiers :
             w <= t /\ \A u \in PublishedTiers : w <= u => t <= u
    ELSE CHOOSE t \in PublishedTiers : \A u \in PublishedTiers : u <= t

\* C21: for every weight w and zone z, get_fedex_price returns the price in
\* zone z of the smallest published tier t with w <= t, or of the largest
\* published tier when w exceeds all tiers.
C21_RoundsUpToTier ==
    call_result # <<>> =>
        call_result[1] = TierPrice(TierFor(call_args[1]), call_args[2])

\* a weight strictly between two published tiers has been priced
C21_Witness ==
    /\ call_result # <<>>
    /\ call_args[1] \notin PublishedTiers
    /\ \E t, u \in PublishedTiers : t < call_args[1] /\ call_args[1] < u
    /\ call_result[1] > 0

\* the line items of the calculation with the cost the resolver gave each
CalcResolved == LineEntries(CalcCompleted, call_args.sku, call_args.listing_id)

\* the quantity sold, and the part of it that has a resolved cost > 0
CalcSold == SumOver(CalcResolved, LAMBDA l : l.quantity)

CalcKnown == SumOver(CalcResolved, LAMBDA l : IF l.cost > 0 THEN l.quantity ELSE 0)

\* C22: in every document computed from raw orders, unit cost is added to
\* total_cost only for line items whose resolved cost is > 0, the provenance
\* tallies sum to total_quantity_sold, cost_coverage_percent is 100 x (quantity
\* with known cost) / total_quantity_sold, and has_complete_cost_data is true
\* exactly when total_quantity_sold > 0 and the missing-cost quantity is 0.
C22_CostCoverage ==
    call_result # <<>> =>
        /\ call_result[1].total_cost
             = Round2(SumOver(CalcResolved, LAMBDA l :
                   IF l.cost > 0 THEN l.cost * l.quantity * Mills ELSE 0))
        /\ call_result[1].total_quantity_sold = CalcSold
        /\ call_result[1].cost_data_sources.direct
             + call_result[1].cost_data_sources.sibling_same_period
             + call_result[1].cost_data_sources.sibling_historical
             + call_result[1].cost_data_sources.missing
             = call_result[1].total_quantity_sold
        /\ call_result[1].items_missing_cost = CalcSold - CalcKnown
        /\ call_result[1].items_missing_cost = call_result[1].cost_data_sources.missing
        /\ CalcSold > 0 =>
              FracEq(call_result[1].cost_coverage_percent,
                     Ratio2(CalcKnown * 100, CalcSold))
        /\ call_result[1].has_complete_cost_data
             <=> (call_result[1].total_quantity_sold > 0
                    /\ call_result[1].items_missing_cost = 0)

\* a document over several units of which some have a cost and some have none,
\* one line item having more than one unit
C22_Witness ==
    /\ call_result # <<>>
    /\ CalcKnown > 0
    /\ CalcKnown < CalcSold
    /\ \E l \in CalcResolved : l.quantity > 1 /\ l.cost > 0
    /\ \E l \in CalcResolved : l.cost = 0
    /\ ~call_result[1].has_complete_cost_data

\* the additive fields a listing document shares with the calculation from
\* the raw orders of the listing
ListingFields ==
    {"gross_revenue", "total_etsy_fees", "total_orders", "total_items",
     "total_refund_amount", "unique_customers", "total_cost", "gross_profit",
     "net_profit"}

\* the document calculate_metrics_batch computes from the raw orders of the
\* listing for the period of the key
DirectListingDocument(listing_id, k) ==
    calculate_metrics_batch(<<k[2]>>, listing_id, None)[k[2]]

\* C28: for every listing and period, the listing document obtained by
\* aggregating its child SKU documents has the same additive fields as the
\* document computed directly from the raw orders of the listing for the period,
\* also when one order has line items of several SKUs of the listing.
C28_AggregateEqualsDirect ==
    \A lid \in DOMAIN listing_metrics_store :
        \A k \in DOMAIN listing_metrics_store[lid] :
            StoredChildren(lid, k) # {} =>
                \A f \in ListingFields :
                    listing_metrics_store[lid][k][f] = DirectListingDocument(lid, k)[f]

\* the line items of the SKU of the calculation in the completed orders of the
\* period, as the tables orders and order_transactions hold them: <<order, line>>
ProductLines ==
    UNION {{<<o, o.transactions[i]>> :
               i \in {j \in DOMAIN o.transactions :
                         EntityFilter(o.transactions[j], call_args.sku, NoListing)}} :
           o \in {x \in orders : /\ InRange(x.created_timestamp, call_args.date_range)
                                 /\ x.status \notin {"cancelled", "canceled"}}}

\* the source of the cost of a line item resolved with the listing of the line
SourceWithListing(p) ==
    get_cost_with_fallback(p[2].sku, OrderYear(p[1]), OrderMonth(p[1]),
                           p[2].listing_id)[2]

\* C29: when a Product-scope document is computed (sku given, no listing_id
\* given), the cost of each line item is resolved with the listing id of the line
\* item, so a sold SKU without a cost of its own but with a costed sibling in its
\* listing is counted as known cost with sibling provenance, not as missing.
C29_ProductScopeUsesListing ==
    (call_result # <<>> /\ call_args.sku # None /\ call_args.listing_id = NoListing) =>
        /\ call_result[1].items_with_fallback_cost
             = SumOver(ProductLines, LAMBDA p :
                   IF SourceWithListing(p) \in {"sibling_same_period", "sibling_historical"}
                   THEN p[2].quantity ELSE 0)
        /\ call_result[1].items_missing_cost
             = SumOver(ProductLines, LAMBDA p :
                   IF SourceWithListing(p) = "missing" THEN p[2].quantity ELSE 0)

\* C30: the cost caches are transparent: for every SKU, year and month,
\* get_cost_for_sku_date returns the same value whether or not the precomputed
\* bulk cost index has been populated, also when the first matching cost column
\* holds 0 and a later column or region prefix holds a positive value.
C30_CachesTransparent ==
    cost_answer # <<>> =>
        get_cost_for_sku_date(cost_query.sku, cost_query.year, cost_query.month)
            = get_cost_before_preload(cost_query.sku, cost_query.year, cost_query.month)

\* C27: aggregation never edits a child in place: after any call of
\* _sum_metrics, _aggregate_from_skus or _aggregate_from_listings every child
\* document held in the SKU or listing store, its cost_data_sources map
\* included, is the document that was computed and saved for the child, also
\* when the aggregate has a single child.
C27_ChildrenUnchanged ==
    /\ \A sku \in DOMAIN sku_metrics_store : \A k \in DOMAIN sku_metrics_store[sku] :
          sku_metrics_store[sku][k] = product_reports[<<sku, k[1], k[2]>>]
    /\ \A lid \in DOMAIN listing_metrics_store :
          \A k \in DOMAIN listing_metrics_store[lid] :
             listing_metrics_store[lid][k] = listing_reports[<<lid, k[1], k[2]>>]

\* a finished run in which one listing document was aggregated from a single
\* SKU document, another from two, and a shop document from two listing
\* documents
C27_Witness ==
    /\ phase = "done"
    /\ \E lid \in DOMAIN listing_metrics_store : \E k \in DOMAIN listing_metrics_store[lid] :
          Cardinality(StoredChildren(lid, k)) = 1
    /\ \E lid \in DOMAIN listing_metrics_store : \E k \in DOMAIN listing_metrics_store[lid] :
          Cardinality(StoredChildren(lid, k)) = 2
    /\ ShopAggregates # {}

\* the timeouts of the query of the batched call
BatchTimeouts ==
    Timeouts(call_args.period_type, call_args.date_ranges, call_args.listing_id,
             call_args.sku)

\* the rows of period dr of the batched call
BatchRows(dr) == QueryRows(dr, call_args.sku, call_args.listing_id)

\* C26: a malformed quantity on one line item is contained to that line: the
\* remaining orders of its period are still counted in the period's document,
\* and the documents of the other periods of the same batch are what they are
\* without the malformed line.
C26_LineFailureContained ==
    (call_result # <<>> /\ BatchTimeouts = 0)
        => (call_result[1] # <<>>
              => \A dr \in Range(call_args.date_ranges) :
                    /\ call_result[1][dr].total_orders =
                           Cardinality(CompletedOrders(BatchRows(dr)))
                    /\ ~RowsRaise(BatchRows(dr))
                          => call_result[1][dr] =
                                 _calculate_metrics_from_rows(
                                     BatchRows(dr), dr, call_args.sku, call_args.listing_id))

\* C25: a query that times out on fewer attempts than the loop makes is
\* re-issued and the call returns the metrics of its rows; the periods are
\* skipped, with empty metrics, only when every attempt timed out.
C25_TimeoutRetried ==
    call_result # <<>>
        => call_result[1] =
               IF BatchTimeouts < max_retries
               THEN calculate_metrics_batch(call_args.date_ranges, call_args.listing_id,
                                            call_args.sku)
               ELSE QueryOutcome(calculate_metrics_batch(call_args.date_ranges,
                                                         call_args.listing_id, call_args.sku),
                                 TRUE, call_args.date_ranges)

\* the tasks of a kind that are inside the semaphore
InsideOf(kind) == {task \in inside : task[1] = kind}

\* C23: the phases are ordered: a listing task is inside its handler, where it
\* reads the SKU store, only when every SKU task has finished, and a shop
\* task is inside its handler, where it reads the listing store, only when
\* every listing task has finished.
C23_PhaseOrdering ==
    /\ InsideOf("listing") # {}
          => sku_tasks_done = Range(get_all_skus) /\ InsideOf("sku") = {}
    /\ InsideOf("shop") # {}
          => /\ sku_tasks_done = Range(get_all_skus)
             /\ listing_tasks_done = Range(get_all_listings)
             /\ InsideOf("sku") = {} /\ InsideOf("listing") = {}

\* a listing task is inside with documents of its child SKUs in the store, and
\* (in another state of the run) a shop task with a listing's documents
C23_Witness ==
    /\ InsideOf("listing") # {}
    /\ \E sku \in DOMAIN sku_metrics_store : sku_metrics_store[sku] # <<>>
    /\ Cardinality(DOMAIN sku_metrics_store) = Len(get_all_skus)

\* the tasks that have finished
TasksDone ==
    {SkuTask(sku) : sku \in sku_tasks_done}
        \cup {ListingTask(listing_id) : listing_id \in listing_tasks_done}
        \cup {ShopTask(period_type) : period_type \in Range(shop_tasks_done)}

\* C24: at every moment at most max_concurrent tasks are inside the semaphore
\* section, and a task that has finished, with or without an exception, is
\* no longer inside: its permit is released.
C24_SemaphoreCap ==
    /\ Cardinality(inside) <= max_concurrent
    /\ inside \cap TasksDone = {}

\* every permit is taken while another task of the chunk waits, after a SKU
\* task failed inside (it left no document although it had one to save)
C24_Witness ==
    /\ phase = "products"
    /\ Cardinality(inside) = max_concurrent
    /\ \E sku \in Range(get_all_skus) :
          sku \notin sku_tasks_done /\ SkuTask(sku) \notin inside
    /\ \E sku \in sku_tasks_done :
          sku_metrics_store[sku] = <<>> /\ SkuDocs(sku) # <<>>

====
